---- MODULE Spec2Model ----
(***************************************************************************)
(* Storage transport (SD_MMC / SD over SPI) and the request handlers of    *)
(* the ESP32-S3 camera server, as a state machine.                         *)
(*                                                                         *)
(* The firmware is single threaded: one handler runs to completion before  *)
(* the next one starts.  A handler is modelled as the sequence of its      *)
(* steps on a call stack; while the stack is not empty the only enabled    *)
(* steps are those of the function on top of it, so a handler, once        *)
(* started, always runs to its end.  Every call into the SD / camera       *)
(* libraries returns a result chosen by the environment.                   *)
(*                                                                         *)
(* Time is millis(), in milliseconds.  delay(d) advances it by d; library  *)
(* calls are taken to return within the same millisecond.                  *)
(***************************************************************************)
EXTENDS Integers, Sequences, FiniteSets, TLC

\* ---------------------------------------------------------------- constants
SD_CHECK_INTERVAL == 5000
\* sd_functions.h:95   int retryCount = 3;
MMC_RETRIES_Two == 3 - 1
MMC_RETRIES_Four == 3 + 1
MMC_RETRIES == 3
\* sd_functions.h:154   retryCount = 3;
SPI_RETRIES_Two == 3 - 1
SPI_RETRIES_Four == 3 + 1
SPI_RETRIES == 3
DELAY_CLEANUP == 500
DELAY_STABILIZE == 100
DELAY_RETRY == 1000
\* web_handlers.h:201   int retries = 3;
LIST_RETRIES_Four == 3 + 1
LIST_RETRIES == 3
\* web_handlers.h:519   int retries = 3;
UPLOAD_RETRIES_Four == 3 + 1
UPLOAD_RETRIES == 3
DELAY_OPEN_RETRY == 100

\* camera_functions.h:184-186   the chunk size of the stream
CHUNK == 1024
\* camera_functions.h:172, 204
DELAY_NO_FRAME == 1000
DELAY_FRAME == 50

\* the characters a request parameter is made of
Chars == {"a", "/", "\\"}

\* ------------------------------------------------------------------- bounds
\* longest folder name of a create_folder request
MaxNameLen == 2
\* No request is accepted after MaxTime (a handler already running finishes):
\* one throttle window, and the start of the next.
MaxTime == 5200
\* The same for the transport alone (SpecTransport): two throttle windows, and
\* the start of a third.
MaxTimeLong == 11700
\* longest frame the camera delivers to the stream: two full chunks and a byte
MaxFrameLen == 2049
\* passes through the streaming loop, over all stream requests
MaxIterations == 2
\* uploads started
MaxUploads == 2
\* most bytes of one upload, and of one of its chunks
MaxUploadLen == 3
MaxChunkLen == 2
\* no upload start, upload response or download of SpecUpload is accepted
\* after MaxTimeUpload
MaxTimeUpload == 100
\* no upload start of SpecUploadStart is accepted after MaxTimeUploadStart
MaxTimeUploadStart == 5200
\* most files of a directory that is listed
MaxEntries == 3
\* longest upload.filename and longest "path" parameter of SpecUploadPath
MaxFilenameLen == 3
MaxDirLen == 2
\* no request of SpecTransportLive is accepted after MaxTimeLive
MaxTimeLive == 5200
\* longest frame a capture saves
MaxCaptureLen == 1
\* no delete request of SpecDelete is accepted after MaxTimeDelete: one
\* throttle window, and the start of the next
MaxTimeDelete == 5200
\* no list request of SpecList is accepted after MaxTimeList
MaxTimeList == 100
\* Idle time between two requests advances the clock by one of these.
IdleSteps == {5000, 5100}

VARIABLES
    sdCardInitialized,  \* sd_functions.h:21
    usingSPIMode,       \* sd_functions.h:22
    lastSDCheckTime,    \* sd_functions.h:23
    now,                \* millis()
    mmcMounted,         \* SD_MMC is between a successful begin() and end()
    sdMounted,          \* SD (SPI) is between a successful begin() and end()
    stack,              \* call stack, innermost frame last
    ret,                \* value returned by the call that returned last
    handler,            \* the request handler running, or the one that ran last
    response,           \* HTTP status sent by that handler, 0 while none
    fbState,            \* frame of the capture: "none", "held", "returned"
    fbReturns,          \* esp_camera_fb_return() calls of the capture
    fbWrite,            \* file.write() of the capture: "none", "owned", "stale"
    acct,               \* library calls since the outermost initializeSDCard() began
    lastProbe,          \* time of the last root-directory probe of checkSDCardStatus, -1 if none
    lastRecovery,       \* time the last recovery (teardown / mount loops) began, -1 if none
    lastCheckRecovery,  \* time of the last recovery begun by checkSDCardStatus, -1 if none
    ev,                 \* what the last step did
    \* handleCameraStream (camera_functions.h:157-206)
    clientConnected,    \* what client.connected() reported last
    iterations,         \* passes begun through the streaming loop
    fb,                 \* fb->len of the frame the stream holds, -1 while it holds none
    n,                  \* the offset variable of the chunk loop
    part,               \* the part being sent: declared Content-Length, sizes of the writes
    written,            \* client.print / client.write calls of the stream so far
    streamLog,          \* frames esp_camera_fb_get() gave the stream, its
                        \* esp_camera_fb_return() calls, where the client left
    \* handleFileUpload (web_handlers.h:475-478) and the files on the card
    uploadFile,         \* static File uploadFile: the path it is open on, <<>> when closed
    uploadPath,         \* static String uploadPath
    uploadError,        \* static bool uploadError
    upload,             \* server.upload(): status, totalSize, and the bytes delivered
    files,              \* the files on the card, by path
    downloaded,         \* what the last download streamed
    \* handleFileList (web_handlers.h:240-282)
    listing,            \* json, first, fileCount of the list being built, and how
                        \* many files openNextFile() has returned so far
    args,               \* server.hasArg / server.arg of the request being handled
    capture             \* handleCapture: what was saved, and under which name

streamVars == <<clientConnected, iterations, fb, n, part, written, streamLog>>

uploadVars == <<uploadFile, uploadPath, uploadError, upload, files, downloaded>>

\* the state of the stream, of the upload session and of the stored files
ext == <<streamVars, uploadVars, args>>

vars == <<sdCardInitialized, usingSPIMode, lastSDCheckTime, now, mmcMounted,
          sdMounted, stack, ret, handler, response, fbState, fbReturns,
          fbWrite, acct, lastProbe, lastRecovery, lastCheckRecovery, ev, ext,
          listing>>

transport == <<sdCardInitialized, usingSPIMode, lastSDCheckTime, mmcMounted, sdMounted>>
frameVars == <<fbState, fbReturns, fbWrite, capture>>
recoveryGhost == <<lastRecovery, lastCheckRecovery>>

\* ---------------------------------------------------------------- call stack
\* rc: the loop counter of the function (retryCount, retries); m, s: the SD_MMC
\* and SD mount attempts the frame has made; init0, spi0: sdCardInitialized and
\* usingSPIMode when the function was entered
FrameAt(p, init, spi) ==
    [proc |-> p, pc |-> "start", rc |-> 0, m |-> 0, s |-> 0,
     init0 |-> init, spi0 |-> spi]
Frame(p) ==
    IF p \in {"initialize", "check", "force"}
      THEN FrameAt(p, sdCardInitialized, usingSPIMode)
      ELSE FrameAt(p, FALSE, FALSE)

Top == stack[Len(stack)]
At(p, l) == stack # <<>> /\ Top.proc = p /\ Top.pc = l
Caller == IF Len(stack) > 1 THEN stack[Len(stack) - 1].proc ELSE "none"
InInitialize == \E i \in 1..Len(stack) : stack[i].proc = "initialize"

WithTop(f) == [stack EXCEPT ![Len(stack)] = f]
Goto(l) == WithTop([Top EXCEPT !.pc = l])
PushCall(retpc, p) == Append(Goto(retpc), Frame(p))
Pop == SubSeq(stack, 1, Len(stack) - 1)

\* probes: the probes of checkSDCardStatus() since the outermost call into the
\* transport began
AcctZero == [mmc |-> 0, spi |-> 0, ends |-> 0, probe |-> "none", probes |-> 0]
\* acct restarts when an initializeSDCard() call begins that is not nested in another
AcctAtCall(p) == IF p = "initialize" /\ ~InInitialize THEN AcctZero ELSE acct

NoAtt == [mode |-> "none"]
NoRtn == [proc |-> "none"]
\* gap: time since the previous event of the same kind (-1: there was none);
\* cgap: the same, among the recoveries begun by checkSDCardStatus
Event(step, att, rtn, gap, cgap) ==
    [step |-> step, att |-> att, rtn |-> rtn, gap |-> gap, cgap |-> cgap]
Rtn(v) == [proc |-> Top.proc, val |-> v, m |-> Top.m, s |-> Top.s,
           init0 |-> Top.init0, spi0 |-> Top.spi0, caller |-> Caller]
Gap(t) == IF t < 0 THEN -1 ELSE now - t

\* ------------------------------------------------------------------ helpers
\* sd_functions.h:54   millis() - lastSDCheckTime > SD_CHECK_INTERVAL
CheckDue_NoThrottle(t, last) == t - last >= 0
CheckDue(t, last) == t - last > SD_CHECK_INTERVAL

\* sd_functions.h:68   if (!isAccessible)
ProbeFailed_Always(accessible) == TRUE
ProbeFailed(accessible) == ~accessible

\* sd_functions.h:35-39   the mode usingSPIMode names is ended; <<SD_MMC, SD>> after it
EndActive_Swapped(spi, mmc, sd) == IF spi THEN <<FALSE, sd>> ELSE <<mmc, FALSE>>
EndActive(spi, mmc, sd) == IF spi THEN <<mmc, FALSE>> ELSE <<FALSE, sd>>

\* sd_functions.h:102-112 / 157-167   the nested tests of one mount attempt
MountVerified_TrustBegin(begin, card, root) == begin
MountVerified(begin, card, root) == begin /\ card /\ root

\* sd_functions.h:130 / 185   end() after a mount whose verification failed
MountedAfterFailedVerify_NoEnd(begin) == begin
MountedAfterFailedVerify(begin) == FALSE

\* sd_functions.h:50   return false;
UninitializedResult_True == TRUE
UninitializedResult == FALSE

\* sd_functions.h:70   return forceReinitializeSDCard();
CheckResult_AlwaysTrue(forceResult) == TRUE
CheckResult(forceResult) == forceResult

NoPart == [declared |-> -1, chunks |-> <<>>]
NoStreamLog == [get |-> 0, ret |-> 0, drop |-> "none"]

\* the paths of the files that are uploaded and downloaded, and their bytes
FsPaths == {<<"/", "a">>, <<"/", "b">>}
Bytes == {0, 1}
NoFile == [kind |-> "none", data |-> <<>>]
Directory == [kind |-> "dir", data |-> <<>>]
StoredFile(data) == [kind |-> "file", data |-> data]
NoHandle == <<>>
\* session: the uploads started so far; data: the bytes delivered; fresh: no
\* handle was open at the start; full: every chunk was written whole; opens,
\* checks, forces: the open(uploadPath, FILE_WRITE) calls of the start, and
\* the checkSDCardStatus() and forceReinitializeSDCard() calls of its retries;
\* discarded: the chunks of the session that were not handed to write();
\* verify: the verifyFile of its end
NoVerify == [tried |-> FALSE, found |-> FALSE, size |-> -1, handle |-> <<>>]
NoUpload == [status |-> "none", totalSize |-> 0, data |-> <<>>, session |-> 0,
             fresh |-> FALSE, full |-> FALSE,
             opens |-> 0, checks |-> 0, forces |-> 0, discarded |-> 0,
             verify |-> NoVerify]
NoDownload == [path |-> <<>>, data |-> <<>>]
\* length, opened, written: the length saveImageToSD() was given, whether its
\* file opened, and what file.write() reported (-1: not called); millis,
\* filename, path: the timestamp, the name made of it and the path saved to;
\* prev: the filename of the request before, when that was a capture that
\* succeeded
NoCapture == [length |-> -1, opened |-> FALSE, written |-> -1, millis |-> -1,
              filename |-> <<>>, path |-> <<>>, prev |-> <<>>]
\* present: the parameters the handler requires are there; name: "name" of a
\* create_folder request, "path" of an upload; file: "file" of a delete
\* request, upload.filename of an upload
NoArgs == [present |-> FALSE, name |-> <<>>, file |-> <<>>]

\* web_handlers.h:240-242   json is the fixed prefix, ending in the opening
\* bracket of the files array, followed by the items appended to it; cut is the
\* number of characters of the prefix that have been removed.  seen: the files
\* openNextFile() has returned; closed: the suffix with the count is appended.
\* web_handlers.h:200-223   opens: the open(path) calls of the loop; forces:
\* the forceReinitializeSDCard() calls of its retries; root: the handle
\* ("none", "open", "closed").
NoListing_CountOne == [cut |-> 0, json |-> <<>>, first |-> TRUE, fileCount |-> 1,
                       seen |-> 0, closed |-> FALSE,
                       opens |-> 0, forces |-> 0, root |-> "none"]
NoListing == [cut |-> 0, json |-> <<>>, first |-> TRUE, fileCount |-> 0,
              seen |-> 0, closed |-> FALSE,
              opens |-> 0, forces |-> 0, root |-> "none"]

\* the state after boot, with `stored` on the card, as the request with the
\* parameters `request` arrives
InitFrom(stored, request) ==
    /\ sdCardInitialized = FALSE
    /\ usingSPIMode = FALSE
    /\ lastSDCheckTime = 0
    /\ now = 0
    /\ mmcMounted = FALSE
    /\ sdMounted = FALSE
    /\ stack = <<>>
    /\ ret = FALSE
    /\ handler = "none"
    /\ response = 0
    /\ fbState = "none"
    /\ fbReturns = 0
    /\ fbWrite = "none"
    /\ acct = AcctZero
    /\ lastProbe = -1
    /\ lastRecovery = -1
    /\ lastCheckRecovery = -1
    /\ ev = Event("init", NoAtt, NoRtn, -1, -1)
    /\ clientConnected = FALSE
    /\ iterations = 0
    /\ fb = -1
    /\ n = 0
    /\ part = NoPart
    /\ written = 0
    /\ streamLog = NoStreamLog
    /\ listing = NoListing
    /\ uploadFile = NoHandle
    /\ uploadPath = <<>>
    /\ uploadError = FALSE
    /\ upload = NoUpload
    /\ files = stored
    /\ downloaded = NoDownload
    /\ args = request
    /\ capture = NoCapture

InitWith(stored) == InitFrom(stored, NoArgs)

Init == InitWith([p \in FsPaths |-> NoFile])

\* ------------------------------------------------------------- environment
IdleUntil(maxTime) ==
    /\ stack = <<>>
    /\ now < maxTime
    /\ \E d \in IdleSteps : now' = now + d
    /\ ev' = Event("tick", NoAtt, NoRtn, -1, -1)
    /\ UNCHANGED <<transport, stack, ret, handler, response, frameVars, acct,
                   lastProbe, recoveryGhost>>
    /\ UNCHANGED <<ext, listing>>

Tick == IdleUntil(MaxTime)

\* A request arrives: its handler starts with a fresh frame.
BeginUntil(h, maxTime) ==
    /\ stack = <<>>
    /\ now <= maxTime
    /\ stack' = <<Frame(h)>>
    /\ handler' = h
    /\ response' = 0
    /\ fbState' = "none"
    /\ fbReturns' = 0
    /\ fbWrite' = "none"
    /\ capture' = [NoCapture EXCEPT !.prev =
                      IF /\ h = "handleCapture" /\ handler = "handleCapture"
                         /\ response = 200
                        THEN capture.filename ELSE <<>>]
    /\ ev' = Event("begin", NoAtt, NoRtn, -1, -1)
    /\ UNCHANGED <<transport, now, ret, acct, lastProbe, recoveryGhost>>
    /\ listing' = NoListing
    /\ downloaded' = NoDownload
    /\ args' = NoArgs
    /\ UNCHANGED <<streamVars, uploadFile, uploadPath, uploadError, upload, files>>

\* The handler on top of the stack sends status `code` and returns.
Respond(step, code) ==
    /\ stack' = <<>>
    /\ response' = code
    /\ ev' = Event(step, NoAtt, NoRtn, -1, -1)

\* The function on top of the stack returns v to its caller.
Return(step, v) ==
    /\ stack' = Pop
    /\ ret' = v
    /\ ev' = Event(step, NoAtt, Rtn(v), -1, -1)

\* ------------------------------------------------- forceReinitializeSDCard
ForceTeardown ==
    /\ At("force", "start")
    /\ sdCardInitialized' = FALSE
    /\ mmcMounted' = EndActive(usingSPIMode, mmcMounted, sdMounted)[1]
    /\ sdMounted' = EndActive(usingSPIMode, mmcMounted, sdMounted)[2]
    /\ now' = now + DELAY_CLEANUP
    /\ stack' = Append(Goto("afterInit"), FrameAt("initialize", FALSE, usingSPIMode))
    /\ acct' = IF InInitialize
                 THEN [acct EXCEPT !.ends = @ + 1]
                 ELSE [AcctZero EXCEPT !.probes = IF Caller = "check"
                                                    THEN acct.probes ELSE 0]
    /\ lastRecovery' = now
    /\ lastCheckRecovery' = IF Caller = "check" THEN now ELSE lastCheckRecovery
    /\ ev' = Event("recovery", NoAtt, NoRtn, Gap(lastRecovery),
                   IF Caller = "check" THEN Gap(lastCheckRecovery) ELSE -1)
    /\ UNCHANGED <<usingSPIMode, lastSDCheckTime, ret, handler, response,
                   frameVars, lastProbe>>
    /\ UNCHANGED <<ext, listing>>

ForceReturn ==
    /\ At("force", "afterInit")
    /\ Return("forceReturn", ret)
    /\ UNCHANGED <<transport, now, handler, response, frameVars, acct,
                   lastProbe, recoveryGhost>>
    /\ UNCHANGED <<ext, listing>>

\* ------------------------------------------------------- checkSDCardStatus
\* sd_functions.h:49-51
CheckUninitialized ==
    /\ At("check", "start")
    /\ ~sdCardInitialized
    /\ Return("checkUninitialized", UninitializedResult)
    /\ UNCHANGED <<transport, now, handler, response, frameVars, acct,
                   lastProbe, recoveryGhost>>
    /\ UNCHANGED <<ext, listing>>

\* sd_functions.h:54, 74   inside the interval: no probe
CheckThrottled ==
    /\ At("check", "start")
    /\ sdCardInitialized
    /\ ~CheckDue(now, lastSDCheckTime)
    /\ Return("checkThrottled", TRUE)
    /\ UNCHANGED <<transport, now, handler, response, frameVars, acct,
                   lastProbe, recoveryGhost>>
    /\ UNCHANGED <<ext, listing>>

\* the function on top of the stack was called by a handler, not by another
\* function of the transport
OutermostCall ==
    \A i \in 1..(Len(stack) - 1) : stack[i].proc \notin {"initialize", "check", "force"}

\* sd_functions.h:54-72   the interval has elapsed: stamp, open "/" on the
\* active mode; accessible is what the library reports
CheckProbe ==
    /\ At("check", "start")
    /\ sdCardInitialized
    /\ CheckDue(now, lastSDCheckTime)
    /\ lastSDCheckTime' = now
    /\ lastProbe' = now
    /\ \E accessible \in BOOLEAN :
         /\ acct' = [acct EXCEPT !.probe = IF accessible THEN "ok" ELSE "fail",
                                 !.probes = IF OutermostCall THEN 1 ELSE @ + 1]
         /\ IF ~ProbeFailed(accessible)
              THEN /\ stack' = Pop
                   /\ ret' = TRUE
                   /\ ev' = Event("probe", NoAtt, Rtn(TRUE), Gap(lastProbe), -1)
              ELSE /\ stack' = PushCall("afterForce", "force")
                   /\ ret' = ret
                   /\ ev' = Event("probe", NoAtt, NoRtn, Gap(lastProbe), -1)
    /\ UNCHANGED <<sdCardInitialized, usingSPIMode, mmcMounted, sdMounted, now,
                   handler, response, frameVars, recoveryGhost>>
    /\ UNCHANGED <<ext, listing>>

\* sd_functions.h:70   return forceReinitializeSDCard();
CheckReturn ==
    /\ At("check", "afterForce")
    /\ Return("checkReturn", CheckResult(ret))
    /\ UNCHANGED <<transport, now, handler, response, frameVars, acct,
                   lastProbe, recoveryGhost>>
    /\ UNCHANGED <<ext, listing>>

\* -------------------------------------------------------- initializeSDCard
\* sd_functions.h:80   sdCardInitialized && checkSDCardStatus()
InitCallCheck ==
    /\ At("initialize", "start")
    /\ sdCardInitialized
    /\ stack' = PushCall("afterCheck", "check")
    /\ ev' = Event("initCallCheck", NoAtt, NoRtn, -1, -1)
    /\ UNCHANGED <<transport, now, ret, handler, response, frameVars, acct,
                   lastProbe, recoveryGhost>>
    /\ UNCHANGED <<ext, listing>>

\* sd_functions.h:80-83
InitNoOp ==
    /\ At("initialize", "afterCheck")
    /\ ret
    /\ Return("initNoOp", TRUE)
    /\ UNCHANGED <<transport, now, handler, response, frameVars, acct,
                   lastProbe, recoveryGhost>>
    /\ UNCHANGED <<ext, listing>>

\* sd_functions.h:85-95   reached when uninitialized or when the check failed
InitReset ==
    /\ \/ At("initialize", "start") /\ ~sdCardInitialized
       \/ At("initialize", "afterCheck") /\ ~ret
    /\ sdCardInitialized' = FALSE
    /\ stack' = WithTop([Top EXCEPT !.pc = "mmc", !.rc = MMC_RETRIES])
    /\ lastRecovery' = IF Caller = "force" THEN lastRecovery ELSE now
    /\ ev' = IF Caller = "force"
               THEN Event("initReset", NoAtt, NoRtn, -1, -1)
               ELSE Event("recovery", NoAtt, NoRtn, Gap(lastRecovery), -1)
    /\ UNCHANGED <<usingSPIMode, lastSDCheckTime, mmcMounted, sdMounted, now,
                   ret, handler, response, frameVars, acct, lastProbe,
                   lastCheckRecovery>>
    /\ UNCHANGED <<ext, listing>>

\* What the library calls of one attempt reported, in call order; a call that
\* was not made reports nothing (FALSE).
Observed(mode, pins, begin, card, root) ==
    [mode |-> mode, pins |-> pins, begin |-> pins /\ begin,
     card |-> pins /\ begin /\ card, root |-> pins /\ begin /\ card /\ root]

\* sd_functions.h:96-147   one iteration of the SD_MMC retry loop
InitMmcAttempt ==
    /\ At("initialize", "mmc")
    /\ Top.rc > 0
    /\ \E pins, begin, card, root \in BOOLEAN :
         LET o == Observed("mmc", pins, begin, card, root)
             ok == o.pins /\ MountVerified(o.begin, o.card, o.root)
             rc == Top.rc - 1
             f == [Top EXCEPT !.m = @ + 1]
         IN  /\ acct' = [acct EXCEPT !.mmc = @ + 1]
             /\ IF ok
                  THEN /\ mmcMounted' = TRUE
                       /\ sdCardInitialized' = TRUE
                       /\ usingSPIMode' = FALSE
                       /\ now' = now + DELAY_STABILIZE
                       /\ lastSDCheckTime' = now'
                       /\ stack' = Pop
                       /\ ret' = TRUE
                       /\ ev' = Event("mmcAttempt", o,
                                      [Rtn(TRUE) EXCEPT !.m = f.m], -1, -1)
                  ELSE /\ mmcMounted' = IF o.begin
                                          THEN MountedAfterFailedVerify(o.begin)
                                          ELSE mmcMounted
                       /\ now' = now + (IF o.begin THEN DELAY_STABILIZE ELSE 0)
                                     + (IF rc > 0 THEN DELAY_RETRY ELSE 0)
                       /\ stack' = WithTop(IF rc > 0
                                             THEN [f EXCEPT !.rc = rc]
                                             ELSE [f EXCEPT !.rc = SPI_RETRIES, !.pc = "spi"])
                       /\ ev' = Event("mmcAttempt", o, NoRtn, -1, -1)
                       /\ UNCHANGED <<sdCardInitialized, usingSPIMode,
                                      lastSDCheckTime, ret>>
    /\ UNCHANGED <<sdMounted, handler, response, frameVars, lastProbe, recoveryGhost>>
    /\ UNCHANGED <<ext, listing>>

\* sd_functions.h:154-200   one iteration of the SD (SPI) retry loop
InitSpiAttempt ==
    /\ At("initialize", "spi")
    /\ Top.rc > 0
    /\ \E begin, card, root \in BOOLEAN :
         LET o == Observed("spi", TRUE, begin, card, root)
             ok == MountVerified(o.begin, o.card, o.root)
             rc == Top.rc - 1
             f == [Top EXCEPT !.s = @ + 1]
         IN  /\ acct' = [acct EXCEPT !.spi = @ + 1]
             /\ IF ok
                  THEN /\ sdMounted' = TRUE
                       /\ sdCardInitialized' = TRUE
                       /\ usingSPIMode' = TRUE
                       /\ now' = now + DELAY_STABILIZE
                       /\ lastSDCheckTime' = now'
                       /\ stack' = Pop
                       /\ ret' = TRUE
                       /\ ev' = Event("spiAttempt", o,
                                      [Rtn(TRUE) EXCEPT !.s = f.s], -1, -1)
                  ELSE /\ sdMounted' = IF o.begin
                                         THEN MountedAfterFailedVerify(o.begin)
                                         ELSE sdMounted
                       /\ now' = now + (IF o.begin THEN DELAY_STABILIZE ELSE 0)
                                     + (IF rc > 0 THEN DELAY_RETRY ELSE 0)
                       /\ IF rc > 0
                            THEN /\ stack' = WithTop([f EXCEPT !.rc = rc])
                                 /\ ret' = ret
                                 /\ ev' = Event("spiAttempt", o, NoRtn, -1, -1)
                            ELSE /\ stack' = Pop
                                 /\ ret' = FALSE
                                 /\ ev' = Event("spiAttempt", o,
                                                [Rtn(FALSE) EXCEPT !.s = f.s], -1, -1)
                       /\ UNCHANGED <<sdCardInitialized, usingSPIMode, lastSDCheckTime>>
    /\ UNCHANGED <<mmcMounted, handler, response, frameVars, lastProbe, recoveryGhost>>
    /\ UNCHANGED <<ext, listing>>

\* ------------------------------------------------------------ saveImageToSD
\* sd_functions.h:215
SaveCallInit ==
    /\ At("save", "start")
    /\ stack' = PushCall("afterInit", "initialize")
    /\ acct' = AcctAtCall("initialize")
    /\ ev' = Event("saveCallInit", NoAtt, NoRtn, -1, -1)
    /\ UNCHANGED <<transport, now, ret, handler, response, frameVars,
                   lastProbe, recoveryGhost>>
    /\ UNCHANGED <<ext, listing>>

\* fb->len as handleCapture reads it at web_handlers.h:115
CaptureLens == 0..MaxCaptureLen

\* sd_functions.h:243   written == length
SaveResult_IgnoreShort(done, length) == TRUE
SaveResult(done, length) == done = length

\* sd_functions.h:215-252   unavailable: return false; else open on the active
\* mode, write buffer/length, close; done is what file.write() reports
SaveAfterInit ==
    /\ At("save", "afterInit")
    /\ IF ~ret
         THEN /\ Return("saveUnavailable", FALSE)
              /\ fbWrite' = fbWrite
              /\ capture' = capture
         ELSE \E length \in CaptureLens, opened \in BOOLEAN :
                IF ~opened
                  THEN /\ fbWrite' = fbWrite
                       /\ capture' = [capture EXCEPT !.length = length]
                       /\ Return("saveNotOpened", FALSE)
                  ELSE \E done \in 0..length :
                         /\ fbWrite' = IF fbState = "held" THEN "owned" ELSE "stale"
                         /\ capture' = [capture EXCEPT !.length = length,
                                                       !.opened = TRUE,
                                                       !.written = done]
                         /\ Return("saveWrite", SaveResult(done, length))
    /\ UNCHANGED <<transport, now, handler, response, fbState, fbReturns, acct,
                   lastProbe, recoveryGhost>>
    /\ UNCHANGED <<ext, listing>>

\* ------------------------------------------------------------ handleCapture
\* web_handlers.h:88-94   esp_camera_fb_get() returned no frame
CaptureNoFrame ==
    /\ At("handleCapture", "start")
    /\ Respond("captureNoFrame", 500)
    /\ UNCHANGED <<transport, now, ret, handler, frameVars, acct, lastProbe,
                   recoveryGhost>>
    /\ UNCHANGED <<ext, listing>>

\* web_handlers.h:88, 99   a frame is acquired; initializeSDCard() is called
CaptureFrame ==
    /\ At("handleCapture", "start")
    /\ fbState' = "held"
    /\ stack' = PushCall("afterInit", "initialize")
    /\ acct' = AcctAtCall("initialize")
    /\ ev' = Event("captureFrame", NoAtt, NoRtn, -1, -1)
    /\ UNCHANGED <<transport, now, ret, handler, response, fbReturns, fbWrite,
                   capture, lastProbe, recoveryGhost>>
    /\ UNCHANGED <<ext, listing>>

\* web_handlers.h:100-102   the frame is returned, then forceReinitializeSDCard()
CaptureReconnect ==
    /\ fbState' = "returned"
    /\ fbReturns' = fbReturns + 1
    /\ stack' = PushCall("afterForce", "force")
    /\ ev' = Event("captureReconnect", NoAtt, NoRtn, -1, -1)
    /\ UNCHANGED <<transport, now, ret, handler, response, fbWrite, capture,
                   acct, lastProbe, recoveryGhost>>

\* String(timestamp): the decimal digits of the number
DigitChars == <<"0", "1", "2", "3", "4", "5", "6", "7", "8", "9">>
RECURSIVE Digits(_)
Digits(k) ==
    IF k < 10 THEN <<DigitChars[k + 1]>>
    ELSE Digits(k \div 10) \o <<DigitChars[(k % 10) + 1]>>

\* sd_functions.h:204-208   prefix + "_" + String(timestamp) + ".jpg"
ImageFileName_NoTimestamp(prefix, timestamp) == <<prefix, "_", ".jpg">>
ImageFileName(prefix, timestamp) ==
    <<prefix, "_">> \o Digits(timestamp) \o <<".jpg">>

\* web_handlers.h:110-115   the name is made of millis();
\* saveImageToSD(fb->buf, fb->len, filepath)
CaptureCallSave ==
    /\ stack' = PushCall("afterSave", "save")
    /\ capture' = [capture EXCEPT
                      !.millis = now,
                      !.filename = ImageFileName("CAPTURE", now),
                      !.path = <<"/">> \o ImageFileName("CAPTURE", now)]
    /\ ev' = Event("captureCallSave", NoAtt, NoRtn, -1, -1)
    /\ UNCHANGED <<transport, now, ret, handler, response, fbState, fbReturns,
                   fbWrite, acct, lastProbe, recoveryGhost>>

\* web_handlers.h:99   !initializeSDCard() || ...
CaptureAfterInit ==
    /\ At("handleCapture", "afterInit")
    /\ IF ret
         THEN /\ stack' = PushCall("afterCheck", "check")
              /\ ev' = Event("captureCallCheck", NoAtt, NoRtn, -1, -1)
              /\ UNCHANGED <<transport, now, ret, handler, response, frameVars,
                             acct, lastProbe, recoveryGhost>>
         ELSE CaptureReconnect
    /\ UNCHANGED <<ext, listing>>

\* web_handlers.h:99   ... || !checkSDCardStatus()
CaptureAfterCheck ==
    /\ At("handleCapture", "afterCheck")
    /\ IF ret THEN CaptureCallSave ELSE CaptureReconnect
    /\ UNCHANGED <<ext, listing>>

\* web_handlers.h:102-107
CaptureAfterForce ==
    /\ At("handleCapture", "afterForce")
    /\ IF ret
         THEN CaptureCallSave
         ELSE /\ Respond("captureUnavailable", 500)
              /\ UNCHANGED <<transport, now, ret, handler, frameVars, acct,
                             lastProbe, recoveryGhost>>
    /\ UNCHANGED <<ext, listing>>

\* web_handlers.h:115-128   the frame is returned, the result is reported
CaptureFinish ==
    /\ At("handleCapture", "afterSave")
    /\ fbState' = "returned"
    /\ fbReturns' = fbReturns + 1
    /\ Respond("captureFinish", IF ret THEN 200 ELSE 500)
    /\ UNCHANGED <<transport, now, ret, handler, fbWrite, capture, acct,
                   lastProbe, recoveryGhost>>
    /\ UNCHANGED <<ext, listing>>

\* ---------------------------------------------------- handleSDCardReconnect
\* web_handlers.h:70
ReconnectCallForce ==
    /\ At("handleSDCardReconnect", "start")
    /\ stack' = PushCall("afterForce", "force")
    /\ ev' = Event("reconnectCallForce", NoAtt, NoRtn, -1, -1)
    /\ UNCHANGED <<transport, now, ret, handler, response, frameVars, acct,
                   lastProbe, recoveryGhost>>
    /\ UNCHANGED <<ext, listing>>

\* web_handlers.h:72-78
ReconnectFinish ==
    /\ At("handleSDCardReconnect", "afterForce")
    /\ Respond("reconnectFinish", IF ret THEN 200 ELSE 500)
    /\ UNCHANGED <<transport, now, ret, handler, frameVars, acct, lastProbe,
                   recoveryGhost>>
    /\ UNCHANGED <<ext, listing>>

\* --------------------------------------------------------- handleSystemInfo
\* web_handlers.h:47
SystemInfoCallCheck ==
    /\ At("handleSystemInfo", "start")
    /\ stack' = PushCall("afterCheck", "check")
    /\ ev' = Event("systemInfoCallCheck", NoAtt, NoRtn, -1, -1)
    /\ UNCHANGED <<transport, now, ret, handler, response, frameVars, acct,
                   lastProbe, recoveryGhost>>
    /\ UNCHANGED <<ext, listing>>

\* web_handlers.h:47-60
SystemInfoFinish ==
    /\ At("handleSystemInfo", "afterCheck")
    /\ Respond("systemInfoFinish", 200)
    /\ UNCHANGED <<transport, now, ret, handler, frameVars, acct, lastProbe,
                   recoveryGhost>>
    /\ UNCHANGED <<ext, listing>>

\* ----------------------------------------------------------- handleFileList
\* web_handlers.h:169-187   the path is normalised, initializeSDCard() is called
ListCallInit ==
    /\ At("handleFileList", "start")
    /\ stack' = PushCall("afterInit", "initialize")
    /\ acct' = AcctAtCall("initialize")
    /\ ev' = Event("listCallInit", NoAtt, NoRtn, -1, -1)
    /\ UNCHANGED <<transport, now, ret, handler, response, frameVars,
                   lastProbe, recoveryGhost>>
    /\ UNCHANGED <<ext, listing>>

\* web_handlers.h:190
ListReconnect ==
    /\ stack' = PushCall("afterForce", "force")
    /\ ev' = Event("listReconnect", NoAtt, NoRtn, -1, -1)
    /\ UNCHANGED <<transport, now, ret, handler, response, frameVars, acct,
                   lastProbe, recoveryGhost>>

\* web_handlers.h:200-201   File root; int retries = 3;
ListEnterLoop ==
    /\ stack' = WithTop([Top EXCEPT !.pc = "open", !.rc = LIST_RETRIES])
    /\ ev' = Event("listEnterLoop", NoAtt, NoRtn, -1, -1)
    /\ UNCHANGED <<transport, now, ret, handler, response, frameVars, acct,
                   lastProbe, recoveryGhost>>

\* web_handlers.h:187   !initializeSDCard() || ...
ListAfterInit ==
    /\ At("handleFileList", "afterInit")
    /\ IF ret
         THEN /\ stack' = PushCall("afterCheck", "check")
              /\ ev' = Event("listCallCheck", NoAtt, NoRtn, -1, -1)
              /\ UNCHANGED <<transport, now, ret, handler, response, frameVars,
                             acct, lastProbe, recoveryGhost>>
         ELSE ListReconnect
    /\ UNCHANGED <<ext, listing>>

\* web_handlers.h:187   ... || !checkSDCardStatus()
ListAfterCheck ==
    /\ At("handleFileList", "afterCheck")
    /\ IF ret THEN ListEnterLoop ELSE ListReconnect
    /\ UNCHANGED <<ext, listing>>

\* web_handlers.h:190-198
ListAfterForce ==
    /\ At("handleFileList", "afterForce")
    /\ IF ret
         THEN ListEnterLoop
         ELSE /\ Respond("listUnavailable", 500)
              /\ UNCHANGED <<transport, now, ret, handler, frameVars, acct,
                             lastProbe, recoveryGhost>>
    /\ UNCHANGED <<ext, listing>>

\* web_handlers.h:204-238   one pass of the open loop and, once it is left,
\* the tests of the handle: opened is what open(path) gave ("none": no handle)
ListOpen ==
    /\ At("handleFileList", "open")
    /\ Top.rc > 0
    /\ \E opened \in {"none", "dir", "file"} :
         IF opened = "none"
           THEN IF Top.rc - 1 > 0
                  THEN /\ now' = now + DELAY_OPEN_RETRY
                       /\ stack' = Append(WithTop([Top EXCEPT !.rc = @ - 1]),
                                          Frame("force"))
                       /\ listing' = [listing EXCEPT !.opens = @ + 1,
                                                     !.forces = @ + 1]
                       /\ response' = response
                       /\ ev' = Event("listRetry", NoAtt, NoRtn, -1, -1)
                  ELSE /\ now' = now
                       /\ listing' = [listing EXCEPT !.opens = @ + 1]
                       /\ Respond("listNotFound", 404)
           ELSE IF opened = "dir"
             THEN /\ now' = now
                  /\ listing' = [listing EXCEPT !.opens = @ + 1, !.root = "open"]
                  /\ stack' = Goto("entries")
                  /\ response' = response
                  /\ ev' = Event("listOpened", NoAtt, NoRtn, -1, -1)
             ELSE /\ now' = now
                  /\ listing' = [listing EXCEPT !.opens = @ + 1, !.root = "closed"]
                  /\ Respond("listNotADirectory", 404)
    /\ UNCHANGED <<transport, ret, handler, frameVars, acct, lastProbe,
                   recoveryGhost>>
    /\ UNCHANGED ext

\* the characters of the names openNextFile() reports, and those names: bare
\* or with a directory prefix, hidden or not
EntryChars == {"a", ".", "/"}
EntryNames == {<<"a">>, <<".", "a">>, <<"/", "a">>, <<"/", ".">>}

\* web_handlers.h:253   fileName.lastIndexOf('/'), 0 when there is none
RECURSIVE LastSlash(_, _)
LastSlash(name, i) ==
    IF i = 0 THEN 0 ELSE IF name[i] = "/" THEN i ELSE LastSlash(name, i - 1)

\* web_handlers.h:251-257   the name without its path prefix
BareName(name) ==
    LET lastSlash == LastSlash(name, Len(name))
    IN  IF lastSlash >= 1 THEN SubSeq(name, lastSlash + 1, Len(name)) ELSE name

\* web_handlers.h:260   fileName.startsWith(".")
Hidden_Never(fileName) == FALSE
Hidden(fileName) == Len(fileName) > 0 /\ fileName[1] = "."

\* the items appended to json: a comma, the object of one file, and what is
\* left of such an object that lost its last character
Comma == [kind |-> "comma"]
Entry(fileName) == [kind |-> "entry", name |-> fileName]
Damaged == [kind |-> "damaged"]

\* web_handlers.h:272   json.substring(0, json.length() - 1): the last
\* character goes, be it of an item or of the prefix
DropLastChar(l) ==
    IF l.json = <<>> THEN [l EXCEPT !.cut = @ + 1]
    ELSE LET last == l.json[Len(l.json)]
             rest == SubSeq(l.json, 1, Len(l.json) - 1)
         IN  IF last.kind = "comma"
               THEN [l EXCEPT !.json = rest]
               ELSE [l EXCEPT !.json = Append(rest, Damaged)]

\* web_handlers.h:246-275   the body of the loop for one file
ListEntry(l, name) ==
    LET comma == IF ~l.first THEN [l EXCEPT !.json = Append(@, Comma)] ELSE l
        l1 == [comma EXCEPT !.first = FALSE, !.seen = @ + 1]
        fileName == BareName(name)
    IN  IF ~Hidden(fileName)
          THEN [l1 EXCEPT !.json = Append(@, Entry(fileName)),
                          !.fileCount = @ + 1]
          ELSE IF ~l1.first
            THEN [DropLastChar(l1) EXCEPT !.first = (l1.fileCount = 0)]
            ELSE l1

\* web_handlers.h:244-285   openNextFile(): another file (at most maxEntries
\* in the directory), or none: the array is closed and the answer sent
ListNextFileUpTo(maxEntries) ==
    /\ At("handleFileList", "entries")
    /\ \E file \in {<<>>} \cup EntryNames :
         IF file # <<>>
           THEN /\ listing.seen < maxEntries
                /\ listing' = ListEntry(listing, file)
                /\ stack' = stack
                /\ response' = response
                /\ ev' = Event("listEntry", NoAtt, NoRtn, -1, -1)
           ELSE /\ listing' = [listing EXCEPT !.closed = TRUE, !.root = "closed"]
                /\ Respond("listFinish", 200)
    /\ UNCHANGED <<transport, now, ret, handler, frameVars, acct, lastProbe,
                   recoveryGhost, ext>>

\* the directories listed beside the other requests hold no file
ListEmptyDirectory == ListNextFileUpTo(0)

ListNextFile == ListNextFileUpTo(MaxEntries)

\* ------------------------------------------------------- handleCreateFolder
Names == UNION {[1..k -> Chars] : k \in 0..MaxNameLen}

\* web_handlers.h:413
InvalidFolderName_SlashOnly(name) ==
    \/ \E i \in 1..Len(name) : name[i] = "/"
    \/ Len(name) = 0
InvalidFolderName(name) ==
    \/ \E i \in 1..Len(name) : name[i] = "/"
    \/ \E i \in 1..Len(name) : name[i] = "\\"
    \/ Len(name) = 0

\* web_handlers.h:401-431   a parameter is missing: 400; the name is not valid:
\* 400; else initializeSDCard()
CreateFolderStart ==
    /\ At("handleCreateFolder", "start")
    /\ \E hasArgs \in BOOLEAN, name \in Names :
         /\ args' = [args EXCEPT !.present = hasArgs,
                                 !.name = IF hasArgs THEN name ELSE <<>>]
         /\ IF ~hasArgs
              THEN /\ Respond("createFolderMissing", 400)
                   /\ acct' = acct
              ELSE IF InvalidFolderName(name)
                THEN /\ Respond("createFolderRejected", 400)
                     /\ acct' = acct
                ELSE /\ stack' = PushCall("afterInit", "initialize")
                     /\ acct' = AcctAtCall("initialize")
                     /\ response' = response
                     /\ ev' = Event("createFolderCallInit", NoAtt, NoRtn, -1, -1)
    /\ UNCHANGED <<transport, now, ret, handler, frameVars, lastProbe,
                   recoveryGhost>>
    /\ UNCHANGED <<streamVars, uploadVars, listing>>

\* web_handlers.h:434
CreateFolderReconnect ==
    /\ stack' = PushCall("afterForce", "force")
    /\ response' = response
    /\ ev' = Event("createFolderReconnect", NoAtt, NoRtn, -1, -1)

\* web_handlers.h:442-469   mkdir on the active mode
CreateFolderMkdir ==
    \E success \in BOOLEAN :
        Respond("createFolderFinish", IF success THEN 200 ELSE 500)

\* web_handlers.h:431   !initializeSDCard() || ...
CreateFolderAfterInit ==
    /\ At("handleCreateFolder", "afterInit")
    /\ IF ret
         THEN /\ stack' = PushCall("afterCheck", "check")
              /\ response' = response
              /\ ev' = Event("createFolderCallCheck", NoAtt, NoRtn, -1, -1)
         ELSE CreateFolderReconnect
    /\ UNCHANGED <<transport, now, ret, handler, frameVars, acct, lastProbe,
                   recoveryGhost>>
    /\ UNCHANGED <<ext, listing>>

\* web_handlers.h:431   ... || !checkSDCardStatus()
CreateFolderAfterCheck ==
    /\ At("handleCreateFolder", "afterCheck")
    /\ IF ret THEN CreateFolderMkdir ELSE CreateFolderReconnect
    /\ UNCHANGED <<transport, now, ret, handler, frameVars, acct, lastProbe,
                   recoveryGhost>>
    /\ UNCHANGED <<ext, listing>>

\* web_handlers.h:434-440
CreateFolderAfterForce ==
    /\ At("handleCreateFolder", "afterForce")
    /\ IF ret
         THEN CreateFolderMkdir
         ELSE Respond("createFolderUnavailable", 500)
    /\ UNCHANGED <<transport, now, ret, handler, frameVars, acct, lastProbe,
                   recoveryGhost>>
    /\ UNCHANGED <<ext, listing>>

\* --------------------------------------------------------- handleFileDelete
\* web_handlers.h:638-646
DeleteStart ==
    /\ At("handleFileDelete", "start")
    /\ \E hasArg \in BOOLEAN :
         IF ~hasArg
           THEN /\ Respond("deleteRejected", 400)
                /\ acct' = acct
           ELSE /\ stack' = PushCall("afterInit", "initialize")
                /\ acct' = AcctAtCall("initialize")
                /\ response' = response
                /\ ev' = Event("deleteCallInit", NoAtt, NoRtn, -1, -1)
    /\ UNCHANGED <<transport, now, ret, handler, frameVars, lastProbe,
                   recoveryGhost>>
    /\ UNCHANGED <<ext, listing>>

\* the "file" parameters of the delete requests
DeleteArgs == {<<"/", "a">>, <<"/", "b">>, <<"a">>}

\* there is a file or a directory at the path
Exists(path) == path \in DOMAIN files /\ files[path].kind # "none"

\* web_handlers.h:662-671
DeleteStatus_AlwaysOk(success) == 200
DeleteStatus(success) == IF success THEN 200 ELSE 500

\* web_handlers.h:644-671   the path is used as given; remove on the active
\* mode; results[p] is the set of what remove(p) may report
DeleteAfterInitFrom(results) ==
    /\ At("handleFileDelete", "afterInit")
    /\ \E filepath \in DeleteArgs :
         /\ args' = [args EXCEPT !.present = TRUE, !.file = filepath]
         /\ IF ret
              THEN \E success \in results[filepath] :
                     /\ files' = IF success /\ Exists(filepath)
                                   THEN [files EXCEPT ![filepath] = NoFile]
                                   ELSE files
                     /\ Respond("deleteFinish", DeleteStatus(success))
              ELSE /\ files' = files
                   /\ Respond("deleteUnavailable", 500)
    /\ UNCHANGED <<transport, now, ret, handler, frameVars, acct, lastProbe,
                   recoveryGhost>>
    /\ UNCHANGED <<streamVars, uploadFile, uploadPath, uploadError, upload,
                   downloaded, listing>>

\* beside the other requests the stored files are not followed: remove() may
\* report either result
AnyRemoved == [p \in DeleteArgs |-> BOOLEAN]

DeleteAfterInit == DeleteAfterInitFrom(AnyRemoved)

\* ------------------------------------------------------- handleFileDownload
\* web_handlers.h:293-309
DownloadStart ==
    /\ At("handleFileDownload", "start")
    /\ \E hasArg \in BOOLEAN :
         IF ~hasArg
           THEN /\ Respond("downloadRejected", 400)
                /\ acct' = acct
           ELSE /\ stack' = PushCall("afterInit", "initialize")
                /\ acct' = AcctAtCall("initialize")
                /\ response' = response
                /\ ev' = Event("downloadCallInit", NoAtt, NoRtn, -1, -1)
    /\ UNCHANGED <<transport, now, ret, handler, frameVars, lastProbe,
                   recoveryGhost>>
    /\ UNCHANGED <<ext, listing>>

\* the "file" parameters of the download requests
DownloadArgs == {<<"/", "a">>, <<"a">>, <<"/", "b">>}

\* web_handlers.h:302-305
NormalizePath(filepath) ==
    IF filepath # <<>> /\ filepath[1] = "/" THEN filepath ELSE <<"/">> \o filepath

\* web_handlers.h:309-393   open on the active mode, stream the file;
\* stored[p] is the set of what open(p) may return
DownloadAfterInitFrom(stored) ==
    /\ At("handleFileDownload", "afterInit")
    /\ IF ret
         THEN \E arg \in DownloadArgs :
                \E opened \in stored[NormalizePath(arg)] :
                  /\ Respond("downloadFinish",
                             CASE opened.kind = "none" -> 404
                               [] opened.kind = "dir" -> 400
                               [] opened.kind = "file" -> 200)
                  /\ downloaded' = IF opened.kind = "file"
                                     THEN [path |-> NormalizePath(arg),
                                           data |-> opened.data]
                                     ELSE NoDownload
         ELSE /\ Respond("downloadUnavailable", 500)
              /\ downloaded' = NoDownload
    /\ UNCHANGED <<transport, now, ret, handler, frameVars, acct, lastProbe,
                   recoveryGhost>>
    /\ UNCHANGED <<streamVars, uploadFile, uploadPath, uploadError, upload,
                   files, listing, args>>

\* beside the other requests the stored files are not followed: open() may
\* find nothing, a directory or a file
AnyStored == [p \in FsPaths |-> {NoFile, Directory, StoredFile(<<>>)}]

DownloadAfterInit == DownloadAfterInitFrom(AnyStored)

Handlers == {"handleCapture", "handleSDCardReconnect", "handleSystemInfo",
             "handleFileList", "handleCreateFolder", "handleFileDelete",
             "handleFileDownload"}

Request == \E h \in Handlers : BeginUntil(h, MaxTime)

Next ==
    \/ Tick
    \/ Request
    \/ ForceTeardown \/ ForceReturn
    \/ CheckUninitialized \/ CheckThrottled \/ CheckProbe \/ CheckReturn
    \/ InitCallCheck \/ InitNoOp \/ InitReset \/ InitMmcAttempt \/ InitSpiAttempt
    \/ SaveCallInit \/ SaveAfterInit
    \/ CaptureNoFrame \/ CaptureFrame \/ CaptureAfterInit \/ CaptureAfterCheck
    \/ CaptureAfterForce \/ CaptureFinish
    \/ ReconnectCallForce \/ ReconnectFinish
    \/ SystemInfoCallCheck \/ SystemInfoFinish
    \/ ListCallInit \/ ListAfterInit \/ ListAfterCheck \/ ListAfterForce \/ ListOpen
    \/ ListEmptyDirectory
    \/ CreateFolderStart \/ CreateFolderAfterInit \/ CreateFolderAfterCheck
    \/ CreateFolderAfterForce
    \/ DeleteStart \/ DeleteAfterInit
    \/ DownloadStart \/ DownloadAfterInit

Spec == Init /\ [][Next]_vars

\* The storage transport under the three handlers that enter it directly:
\* checkSDCardStatus() (system info), forceReinitializeSDCard() (reconnect)
\* and initializeSDCard() (delete), over a longer time.
TransportHandlers == {"handleSystemInfo", "handleSDCardReconnect", "handleFileDelete"}

TickLong == IdleUntil(MaxTimeLong)

TransportRequest == \E h \in TransportHandlers : BeginUntil(h, MaxTimeLong)

NextTransport ==
    \/ TickLong
    \/ TransportRequest
    \/ ForceTeardown \/ ForceReturn
    \/ CheckUninitialized \/ CheckThrottled \/ CheckProbe \/ CheckReturn
    \/ InitCallCheck \/ InitNoOp \/ InitReset \/ InitMmcAttempt \/ InitSpiAttempt
    \/ ReconnectCallForce \/ ReconnectFinish
    \/ SystemInfoCallCheck \/ SystemInfoFinish
    \/ DeleteStart \/ DeleteAfterInit

SpecTransport == Init /\ [][NextTransport]_vars

\* The same three handlers over one throttle window and the start of the
\* next.  The processor keeps executing the function it is in: delay() and
\* every call into the SD libraries return.
TickLive == IdleUntil(MaxTimeLive)

TransportRequestLive == \E h \in TransportHandlers : BeginUntil(h, MaxTimeLive)

TransportStep ==
    \/ ForceTeardown \/ ForceReturn
    \/ CheckUninitialized \/ CheckThrottled \/ CheckProbe \/ CheckReturn
    \/ InitCallCheck \/ InitNoOp \/ InitReset \/ InitMmcAttempt \/ InitSpiAttempt

HandlerStep ==
    \/ ReconnectCallForce \/ ReconnectFinish
    \/ SystemInfoCallCheck \/ SystemInfoFinish
    \/ DeleteStart \/ DeleteAfterInit

NextTransportLive ==
    TickLive \/ TransportRequestLive \/ TransportStep \/ HandlerStep

SpecTransportLive ==
    Init /\ [][NextTransportLive]_vars /\ WF_vars(TransportStep)

\* handleFileList alone, over directories of up to MaxEntries files.  Its
\* requests arrive within MaxTimeList of the start, so every health check they
\* make finds the transport initialized and inside the throttle interval.
ListRequest == BeginUntil("handleFileList", MaxTimeList)

NextList ==
    \/ ListRequest
    \/ ForceTeardown \/ ForceReturn
    \/ CheckThrottled
    \/ InitCallCheck \/ InitNoOp \/ InitReset \/ InitMmcAttempt \/ InitSpiAttempt
    \/ ListCallInit \/ ListAfterInit \/ ListAfterCheck \/ ListAfterForce \/ ListOpen
    \/ ListNextFile

SpecList == Init /\ [][NextList]_vars

\* handleFileDelete alone, on a card that holds files and directories when
\* the firmware boots.  remove() succeeds only on a file that is there (it may
\* fail on any path).
Removed ==
    [p \in DeleteArgs |->
        IF Exists(p) /\ files[p].kind = "file" THEN BOOLEAN ELSE {FALSE}]

DeleteStored == DeleteAfterInitFrom(Removed)

InitCard ==
    \E stored \in [FsPaths -> {NoFile, Directory, StoredFile(<<0>>)}] :
        InitWith(stored)

TickDelete == IdleUntil(MaxTimeDelete)

DeleteRequest == BeginUntil("handleFileDelete", MaxTimeDelete)

NextDelete ==
    \/ TickDelete
    \/ DeleteRequest
    \/ ForceTeardown \/ ForceReturn
    \/ CheckThrottled \/ CheckProbe \/ CheckReturn
    \/ InitCallCheck \/ InitNoOp \/ InitReset \/ InitMmcAttempt \/ InitSpiAttempt
    \/ DeleteStart \/ DeleteStored

SpecDelete == InitCard /\ [][NextDelete]_vars

\* --------------------------------------------------------- handleFileUpload
\* upload.filename and the "path" parameter of the upload requests
UploadFileNames == {<<"a">>, <<"\\", "b">>, <<"/", "a">>}
UploadDirs == {<<"/">>}

\* String::lastIndexOf(c): the last position of c in s[1..i], 0 when there is none
RECURSIVE LastIndexOf(_, _, _)
LastIndexOf(s, c, i) ==
    IF i = 0 THEN 0 ELSE IF s[i] = c THEN i ELSE LastIndexOf(s, c, i - 1)

Max(a, b) == IF a >= b THEN a ELSE b

\* web_handlers.h:501-506   the filename without its path
CleanFilename_SlashOnly(filename) ==
    SubSeq(filename, LastIndexOf(filename, "/", Len(filename)) + 1, Len(filename))
CleanFilename(filename) ==
    LET lastSlash == LastIndexOf(filename, "/", Len(filename))
        lastBackslash == LastIndexOf(filename, "\\", Len(filename))
        lastSeparator == Max(lastSlash, lastBackslash)
    IN  IF lastSeparator >= 1
          THEN SubSeq(filename, lastSeparator + 1, Len(filename))
          ELSE filename

\* String::endsWith(c)
EndsWith(s, c) == Len(s) > 0 /\ s[Len(s)] = c

\* web_handlers.h:509   server.hasArg("path") ? server.arg("path") : "/"
CurrentDir(hasPath, path) == IF hasPath THEN path ELSE <<"/">>

\* web_handlers.h:510-515
UploadPathOf(dir, filename) ==
    LET currentDir == IF dir # <<"/">> /\ ~EndsWith(dir, "/")
                        THEN dir \o <<"/">> ELSE dir
    IN  currentDir \o CleanFilename(filename)

\* web_handlers.h:550   write() on the open handle: the bytes follow those
\* the file holds
FileAfterWrite_AtFront(data, bytes) == bytes \o data
FileAfterWrite(data, bytes) == data \o bytes

\* web_handlers.h:548   if (uploadFile && !uploadError)
ChunkAccepted_IgnoreError(file, error) == file # NoHandle
ChunkAccepted(file, error) == file # NoHandle /\ ~error

\* web_handlers.h:551   if (written != upload.currentSize)
WriteFailed_OnlyOver(done, currentSize) == done > currentSize
WriteFailed(done, currentSize) == done # currentSize

\* web_handlers.h:585   verifyFile && verifyFile.size() == upload.totalSize
Verified_ExistsOnly(verifyFile, totalSize) == verifyFile.kind # "none"
Verified(verifyFile, totalSize) ==
    verifyFile.kind # "none" /\ Len(verifyFile.data) = totalSize

\* web_handlers.h:572, 592, 607   File::close(): the handle is open no more
Closed_StillOpen(handle) == handle
Closed(handle) == NoHandle

\* web_handlers.h:578-592   the verifyFile that open(uploadPath) gave, once
\* the end of the upload is done with it
VerifyOf(verifyFile, path) ==
    [tried |-> TRUE, found |-> verifyFile.kind # "none",
     size |-> IF verifyFile.kind # "none" THEN Len(verifyFile.data) ELSE -1,
     handle |-> IF verifyFile.kind # "none" THEN Closed(path) ELSE NoHandle]

\* a file can be opened on the active mode only while that mode is mounted
CanOpen == IF usingSPIMode THEN sdMounted ELSE mmcMounted

Chunks == UNION {[1..k -> Bytes] : k \in 1..MaxChunkLen}

\* the handler frame ends without a response: the upload handler sends none
UploadReturn(step) ==
    /\ stack' = <<>>
    /\ ev' = Event(step, NoAtt, NoRtn, -1, -1)

uploadKeep == <<streamVars, listing, frameVars, lastProbe, recoveryGhost, args>>

\* web_handlers.h:480-488   UPLOAD_FILE_START: the flag is cleared,
\* initializeSDCard() is called
UploadStartUntil(maxTime) ==
    /\ stack = <<>>
    /\ now <= maxTime
    /\ upload.session < MaxUploads
    /\ handler' = "handleFileUpload"
    /\ response' = 0
    /\ uploadError' = FALSE
    /\ upload' = [status |-> "START", totalSize |-> 0, data |-> <<>>,
                  session |-> upload.session + 1,
                  fresh |-> uploadFile = NoHandle, full |-> TRUE,
                  opens |-> 0, checks |-> 0, forces |-> 0, discarded |-> 0,
                  verify |-> NoVerify]
    /\ downloaded' = NoDownload
    /\ stack' = <<[Frame("handleFileUpload") EXCEPT !.pc = "afterInit"],
                  Frame("initialize")>>
    /\ acct' = AcctZero
    /\ ev' = Event("uploadStart", NoAtt, NoRtn, -1, -1)
    /\ UNCHANGED <<transport, now, ret, uploadFile, uploadPath, files,
                   uploadKeep>>

UploadStart == UploadStartUntil(MaxTimeUpload)

\* web_handlers.h:491
UploadReconnect ==
    /\ stack' = PushCall("afterForce", "force")
    /\ ev' = Event("uploadReconnect", NoAtt, NoRtn, -1, -1)
    /\ UNCHANGED <<uploadPath, uploadError>>

\* web_handlers.h:498-519   the destination path is put together; int retries = 3
UploadEnterLoop ==
    /\ \E filename \in UploadFileNames, dir \in UploadDirs :
         uploadPath' = UploadPathOf(dir, filename)
    /\ stack' = WithTop([Top EXCEPT !.pc = "open", !.rc = UPLOAD_RETRIES])
    /\ ev' = Event("uploadEnterLoop", NoAtt, NoRtn, -1, -1)
    /\ UNCHANGED uploadError

\* web_handlers.h:488   !initializeSDCard() || ...
UploadAfterInit ==
    /\ At("handleFileUpload", "afterInit")
    /\ IF ret
         THEN /\ stack' = PushCall("afterCheck", "check")
              /\ ev' = Event("uploadCallCheck", NoAtt, NoRtn, -1, -1)
              /\ UNCHANGED <<uploadPath, uploadError>>
         ELSE UploadReconnect
    /\ UNCHANGED <<transport, now, ret, handler, response, acct, uploadFile,
                   upload, files, downloaded, uploadKeep>>

\* web_handlers.h:488   ... || !checkSDCardStatus()
UploadAfterCheck ==
    /\ At("handleFileUpload", "afterCheck")
    /\ IF ret THEN UploadEnterLoop ELSE UploadReconnect
    /\ UNCHANGED <<transport, now, ret, handler, response, acct, uploadFile,
                   upload, files, downloaded, uploadKeep>>

\* web_handlers.h:491-495
UploadAfterForce ==
    /\ At("handleFileUpload", "afterForce")
    /\ IF ret
         THEN UploadEnterLoop
         ELSE /\ uploadError' = TRUE
              /\ UploadReturn("uploadUnavailable")
              /\ UNCHANGED uploadPath
    /\ UNCHANGED <<transport, now, ret, handler, response, acct, uploadFile,
                   upload, files, downloaded, uploadKeep>>

\* web_handlers.h:520-544   while (retries > 0 && !uploadFile): one pass, or
\* the end of the handler when the condition fails
UploadOpen ==
    /\ At("handleFileUpload", "open")
    /\ IF Top.rc > 0 /\ uploadFile = NoHandle
         THEN \E ok \in BOOLEAN :
                /\ ok => CanOpen
                /\ upload' = [upload EXCEPT
                                  !.opens = @ + 1,
                                  !.checks = IF ~ok /\ Top.rc - 1 > 0
                                               THEN @ + 1 ELSE @]
                /\ IF ok
                     THEN /\ uploadFile' = uploadPath
                          /\ files' = [files EXCEPT ![uploadPath] = StoredFile(<<>>)]
                          /\ stack' = stack
                          /\ ev' = Event("uploadOpened", NoAtt, NoRtn, -1, -1)
                          /\ UNCHANGED <<now, uploadError>>
                     ELSE /\ UNCHANGED <<uploadFile, files>>
                          /\ IF Top.rc - 1 > 0
                               THEN /\ now' = now + DELAY_OPEN_RETRY
                                    /\ stack' = Append(WithTop([Top EXCEPT !.rc = @ - 1,
                                                                      !.pc = "retryCheck"]),
                                                       Frame("check"))
                                    /\ ev' = Event("uploadRetry", NoAtt, NoRtn, -1, -1)
                                    /\ UNCHANGED uploadError
                               ELSE /\ now' = now
                                    /\ uploadError' = TRUE
                                    /\ stack' = WithTop([Top EXCEPT !.rc = @ - 1])
                                    /\ ev' = Event("uploadOpenFailed", NoAtt, NoRtn, -1, -1)
         ELSE /\ UploadReturn("uploadStarted")
              /\ UNCHANGED <<now, uploadFile, files, uploadError, upload>>
    /\ UNCHANGED <<transport, ret, handler, response, acct, uploadPath,
                   downloaded, uploadKeep>>

\* web_handlers.h:536-538   if (!checkSDCardStatus()) forceReinitializeSDCard();
UploadRetryCheck ==
    /\ At("handleFileUpload", "retryCheck")
    /\ stack' = IF ret THEN Goto("open") ELSE PushCall("open", "force")
    /\ upload' = IF ret THEN upload ELSE [upload EXCEPT !.forces = @ + 1]
    /\ ev' = Event("uploadRetryCheck", NoAtt, NoRtn, -1, -1)
    /\ UNCHANGED <<transport, now, ret, handler, response, acct, uploadFile,
                   uploadPath, uploadError, files, downloaded, uploadKeep>>

\* web_handlers.h:546-566   UPLOAD_FILE_WRITE: the chunk goes to the open
\* handle; done is what write() reports
UploadWrite ==
    /\ stack = <<>>
    /\ upload.status \in {"START", "WRITE"}
    /\ \E chunk \in Chunks :
         /\ Len(upload.data) + Len(chunk) <= MaxUploadLen
         /\ IF ChunkAccepted(uploadFile, uploadError)
              THEN \E done \in 0..Len(chunk) :
                     /\ files' = [files EXCEPT ![uploadFile].data =
                                      FileAfterWrite(@, SubSeq(chunk, 1, done))]
                     /\ uploadError' = (uploadError \/ WriteFailed(done, Len(chunk)))
                     /\ upload' = [upload EXCEPT !.status = "WRITE",
                                                 !.totalSize = @ + Len(chunk),
                                                 !.data = @ \o chunk,
                                                 !.full = @ /\ done = Len(chunk)]
              ELSE /\ UNCHANGED <<files, uploadError>>
                   /\ upload' = [upload EXCEPT !.status = "WRITE",
                                               !.totalSize = @ + Len(chunk),
                                               !.data = @ \o chunk,
                                               !.full = FALSE,
                                               !.discarded = @ + 1]
    /\ handler' = "handleFileUpload"
    /\ response' = 0
    /\ ev' = Event("uploadWrite", NoAtt, NoRtn, -1, -1)
    /\ downloaded' = NoDownload
    /\ UNCHANGED <<transport, now, ret, stack, acct, uploadFile, uploadPath,
                   uploadKeep>>

\* web_handlers.h:567-602   UPLOAD_FILE_END: flush, close, and the size of the
\* file at uploadPath is compared with upload.totalSize
UploadEnd ==
    /\ stack = <<>>
    /\ upload.status \in {"START", "WRITE"}
    /\ IF uploadFile # NoHandle
         THEN /\ uploadFile' = Closed(uploadFile)
              /\ IF ~uploadError
                   THEN \E verifyFile \in {files[uploadPath], NoFile} :
                          /\ uploadError' = ~Verified(verifyFile, upload.totalSize)
                          /\ upload' = [upload EXCEPT
                                            !.status = "END",
                                            !.verify = VerifyOf(verifyFile, uploadPath)]
                   ELSE /\ uploadError' = uploadError
                        /\ upload' = [upload EXCEPT !.status = "END"]
         ELSE /\ uploadFile' = uploadFile
              /\ uploadError' = TRUE
              /\ upload' = [upload EXCEPT !.status = "END"]
    /\ handler' = "handleFileUpload"
    /\ response' = 0
    /\ ev' = Event("uploadEnd", NoAtt, NoRtn, -1, -1)
    /\ downloaded' = NoDownload
    /\ UNCHANGED <<transport, now, ret, stack, acct, uploadPath, files,
                   uploadKeep>>

\* web_handlers.h:603-610   UPLOAD_FILE_ABORTED
UploadAborted ==
    /\ stack = <<>>
    /\ upload.status \in {"START", "WRITE"}
    /\ uploadFile' = IF uploadFile # NoHandle THEN Closed(uploadFile) ELSE uploadFile
    /\ uploadError' = TRUE
    /\ upload' = [upload EXCEPT !.status = "ABORTED"]
    /\ handler' = "handleFileUpload"
    /\ response' = 0
    /\ ev' = Event("uploadAborted", NoAtt, NoRtn, -1, -1)
    /\ downloaded' = NoDownload
    /\ UNCHANGED <<transport, now, ret, stack, acct, uploadPath, files,
                   uploadKeep>>

\* ------------------------------------------------- handleFileUploadResponse
\* the request of an upload that reached its end is answered
UploadResponseRequest ==
    /\ upload.status = "END"
    /\ BeginUntil("handleFileUploadResponse", MaxTimeUpload)

\* web_handlers.h:623
UploadResponseStart ==
    /\ At("handleFileUploadResponse", "start")
    /\ stack' = PushCall("afterInit", "initialize")
    /\ acct' = AcctAtCall("initialize")
    /\ ev' = Event("uploadResponseCallInit", NoAtt, NoRtn, -1, -1)
    /\ UNCHANGED <<transport, now, ret, handler, response, uploadVars, uploadKeep>>

\* web_handlers.h:623-626   !initializeSDCard() || ...
UploadResponseAfterInit ==
    /\ At("handleFileUploadResponse", "afterInit")
    /\ IF ret
         THEN /\ stack' = PushCall("afterCheck", "check")
              /\ response' = response
              /\ ev' = Event("uploadResponseCallCheck", NoAtt, NoRtn, -1, -1)
         ELSE Respond("uploadResponseUnavailable", 500)
    /\ UNCHANGED <<transport, now, ret, handler, acct, uploadVars, uploadKeep>>

\* web_handlers.h:623-630   ... || !checkSDCardStatus(); else success
UploadResponseAfterCheck ==
    /\ At("handleFileUploadResponse", "afterCheck")
    /\ Respond("uploadResponseFinish", IF ret THEN 200 ELSE 500)
    /\ UNCHANGED <<transport, now, ret, handler, acct, uploadVars, uploadKeep>>

\* the files as the upload left them; open() may also fail
Stored == [p \in FsPaths |-> {files[p], NoFile}]

DownloadStored == DownloadAfterInitFrom(Stored)

DownloadRequest == BeginUntil("handleFileDownload", MaxTimeUpload)

\* Uploads and downloads alone.  Their requests arrive within MaxTimeUpload of
\* the start, so every health check they make finds the transport initialized
\* and inside the throttle interval.
NextUpload ==
    \/ UploadStart \/ UploadAfterInit \/ UploadAfterCheck \/ UploadAfterForce
    \/ UploadOpen \/ UploadRetryCheck
    \/ UploadWrite \/ UploadEnd \/ UploadAborted
    \/ UploadResponseRequest \/ UploadResponseStart \/ UploadResponseAfterInit
    \/ UploadResponseAfterCheck
    \/ DownloadRequest \/ DownloadStart \/ DownloadStored
    \/ ForceTeardown \/ ForceReturn
    \/ CheckThrottled
    \/ InitCallCheck \/ InitNoOp \/ InitReset \/ InitMmcAttempt \/ InitSpiAttempt

SpecUpload == Init /\ [][NextUpload]_vars

\* The start of an upload, and the events that close its handle, over a
\* throttle window and the start of the next: the health checks of the start
\* and of its retries can probe the card and fail.
TickUploadStart == IdleUntil(MaxTimeUploadStart)

UploadStartLate == UploadStartUntil(MaxTimeUploadStart)

NextUploadStart ==
    \/ TickUploadStart
    \/ UploadStartLate \/ UploadAfterInit \/ UploadAfterCheck \/ UploadAfterForce
    \/ UploadOpen \/ UploadRetryCheck
    \/ UploadEnd \/ UploadAborted
    \/ ForceTeardown \/ ForceReturn
    \/ CheckUninitialized \/ CheckThrottled \/ CheckProbe \/ CheckReturn
    \/ InitCallCheck \/ InitNoOp \/ InitReset \/ InitMmcAttempt \/ InitSpiAttempt

SpecUploadStart == Init /\ [][NextUploadStart]_vars

\* The destination of an upload, for every filename and "path" parameter of
\* up to MaxFilenameLen and MaxDirLen characters.
FilenameArgs == UNION {[1..k -> Chars] : k \in 0..MaxFilenameLen}
DirArgs == UNION {[1..k -> {"/", "a"}] : k \in 0..MaxDirLen}

InitPath ==
    \E filename \in FilenameArgs :
        \/ InitFrom([p \in FsPaths |-> NoFile],
                    [present |-> FALSE, name |-> <<>>, file |-> filename])
        \/ \E dir \in DirArgs :
             InitFrom([p \in FsPaths |-> NoFile],
                      [present |-> TRUE, name |-> dir, file |-> filename])

\* web_handlers.h:498-515
UploadDestination ==
    /\ ev.step = "init"
    /\ uploadPath' = UploadPathOf(CurrentDir(args.present, args.name), args.file)
    /\ ev' = Event("uploadPath", NoAtt, NoRtn, -1, -1)
    /\ UNCHANGED <<transport, now, stack, ret, handler, response, frameVars,
                   acct, lastProbe, recoveryGhost, streamVars, listing,
                   uploadFile, uploadError, upload, files, downloaded, args>>

SpecUploadPath == InitPath /\ [][UploadDestination]_vars

\* ------------------------------------------------------- handleCameraStream
\* The stream handler does not use the storage transport; it is run on its own.
server == <<transport, ret, frameVars, acct, lastProbe, recoveryGhost, listing,
           uploadVars, args>>

FrameLens == 0..MaxFrameLen

\* camera_functions.h:186-195   the bytes one pass of the chunk loop writes
\* (0: it writes nothing)
ChunkSize(offset, fbLen) ==
    IF offset + CHUNK < fbLen THEN CHUNK
    ELSE IF fbLen % CHUNK > 0 THEN fbLen % CHUNK
    ELSE 0

\* what client.connected() can report: a closed channel stays closed
Connected(r) == r => clientConnected

\* camera_functions.h:173   continue;  the stack after a failed acquisition
AfterNoFrame_Break == <<>>
AfterNoFrame == Goto("loop")

\* camera_functions.h:166   the stack once the loop condition is false
LoopExit_Stay == stack
LoopExit == <<>>

\* camera_functions.h:200   esp_camera_fb_return(fb)
Returned_Skip(log) == log
Returned(log) == [log EXCEPT !.ret = @ + 1]

\* a viewer opens /stream
StreamRequest ==
    /\ stack = <<>>
    /\ iterations < MaxIterations
    /\ stack' = <<Frame("handleCameraStream")>>
    /\ handler' = "handleCameraStream"
    /\ response' = 0
    /\ clientConnected' = TRUE
    /\ fb' = -1
    /\ n' = 0
    /\ part' = NoPart
    /\ written' = 0
    /\ streamLog' = NoStreamLog
    /\ ev' = Event("begin", NoAtt, NoRtn, -1, -1)
    /\ UNCHANGED <<server, now, iterations>>

\* camera_functions.h:159-164   the response header is printed
StreamStart ==
    /\ At("handleCameraStream", "start")
    /\ response' = 200
    /\ written' = written + 1
    /\ stack' = Goto("loop")
    /\ ev' = Event("streamStart", NoAtt, NoRtn, -1, -1)
    /\ UNCHANGED <<server, now, handler, clientConnected, iterations, fb, n, part,
                   streamLog>>

\* camera_functions.h:166   while (client.connected())
StreamConnected ==
    /\ At("handleCameraStream", "loop")
    /\ \E r \in BOOLEAN :
         /\ Connected(r)
         /\ r => iterations < MaxIterations
         /\ clientConnected' = r
         /\ IF r
              THEN /\ stack' = Goto("acquire")
                   /\ iterations' = iterations + 1
                   /\ ev' = Event("streamLoop", NoAtt, NoRtn, -1, -1)
              ELSE /\ stack' = LoopExit
                   /\ iterations' = iterations
                   /\ ev' = Event("streamExit", NoAtt, NoRtn, -1, -1)
    /\ UNCHANGED <<server, now, handler, response, fb, n, part, written,
                   streamLog>>

\* camera_functions.h:168-181   esp_camera_fb_get(); no frame: wait and go on;
\* a frame that is not empty: boundary and part header
StreamAcquire ==
    /\ At("handleCameraStream", "acquire")
    /\ \E got \in {-1} \cup FrameLens :
         /\ fb' = got
         /\ streamLog' = IF got = -1 THEN streamLog
                         ELSE [streamLog EXCEPT !.get = @ + 1]
         /\ IF got = -1
              THEN /\ now' = now + DELAY_NO_FRAME
                   /\ stack' = AfterNoFrame
                   /\ ev' = Event("streamNoFrame", NoAtt, NoRtn, -1, -1)
                   /\ UNCHANGED <<n, part, written>>
              ELSE IF got > 0
                THEN /\ part' = [declared |-> got, chunks |-> <<>>]
                     /\ written' = written + 2
                     /\ n' = 0
                     /\ stack' = Goto("chunk")
                     /\ ev' = Event("streamPart", NoAtt, NoRtn, -1, -1)
                     /\ now' = now
                ELSE /\ stack' = Goto("release")
                     /\ ev' = Event("streamEmpty", NoAtt, NoRtn, -1, -1)
                     /\ UNCHANGED <<now, n, part, written>>
    /\ UNCHANGED <<server, handler, response, clientConnected, iterations>>

\* camera_functions.h:184-197   one pass of the chunk loop, or, when the loop
\* condition fails, the separator that ends the part
StreamChunk ==
    /\ At("handleCameraStream", "chunk")
    /\ IF n < fb
         THEN LET size == ChunkSize(n, fb)
              IN  /\ part' = IF size > 0
                               THEN [part EXCEPT !.chunks = Append(@, size)]
                               ELSE part
                  /\ written' = written + (IF size > 0 THEN 1 ELSE 0)
                  /\ n' = n + CHUNK
                  /\ stack' = stack
                  /\ ev' = Event("streamChunk", NoAtt, NoRtn, -1, -1)
         ELSE /\ written' = written + 1
              /\ stack' = Goto("release")
              /\ ev' = Event("streamPartEnd", NoAtt, NoRtn, -1, -1)
              /\ UNCHANGED <<n, part>>
    /\ UNCHANGED <<server, now, handler, response, clientConnected, iterations, fb,
                   streamLog>>

\* camera_functions.h:200-204   the frame is returned; the loop is left when
\* the client is gone, else the next pass follows after the delay
StreamRelease ==
    /\ At("handleCameraStream", "release")
    /\ fb' = -1
    /\ part' = NoPart
    /\ streamLog' = Returned(streamLog)
    /\ \E r \in BOOLEAN :
         /\ Connected(r)
         /\ clientConnected' = r
         /\ IF r
              THEN /\ now' = now + DELAY_FRAME
                   /\ stack' = Goto("loop")
                   /\ ev' = Event("streamRelease", NoAtt, NoRtn, -1, -1)
              ELSE /\ now' = now
                   /\ stack' = <<>>
                   /\ ev' = Event("streamExit", NoAtt, NoRtn, -1, -1)
    /\ UNCHANGED <<server, handler, response, iterations, n, written>>

NextStream ==
    \/ StreamRequest
    \/ StreamStart \/ StreamConnected \/ StreamAcquire \/ StreamChunk
    \/ StreamRelease

SpecStream == Init /\ [][NextStream]_vars

\* The client closes the connection while the handler runs, at any point of
\* the loop; the handler learns of it at its next client.connected().
Disconnect ==
    /\ stack # <<>> /\ Top.proc = "handleCameraStream"
    /\ clientConnected
    /\ clientConnected' = FALSE
    /\ streamLog' = [streamLog EXCEPT !.drop = Top.pc]
    /\ ev' = Event("disconnect", NoAtt, NoRtn, -1, -1)
    /\ UNCHANGED <<server, now, stack, handler, response, iterations, fb, n,
                   part, written>>

\* the steps of the handler itself: the processor keeps executing it, and
\* delay() and the calls into the camera and the client return
StreamStep ==
    StreamStart \/ StreamConnected \/ StreamAcquire \/ StreamChunk \/ StreamRelease

NextStreamLive == NextStream \/ Disconnect

SpecStreamLive == Init /\ [][NextStreamLive]_vars /\ WF_vars(StreamStep)

\* ======================================================================
\* Properties
\* ======================================================================
InitializeFrames == {i \in 1..Len(stack) : stack[i].proc = "initialize"}
ReturnedFrom(p) == ev.rtn.proc = p
CaptureDone == stack = <<>> /\ handler = "handleCapture" /\ response # 0

\* C1: SD_MMC and SD (SPI) are never both between a successful begin and the
\* matching end; in particular no begin of one mode is attempted while the
\* other is mounted.
C1_NeverBothMounted ==
    /\ ~(mmcMounted /\ sdMounted)
    /\ At("initialize", "mmc") => ~sdMounted
    /\ At("initialize", "spi") => ~mmcMounted

\* forceReinitializeSDCard() entered with SD_MMC active has returned true with
\* SD (SPI) active: the transport changed mode.
C1_Witness ==
    /\ ReturnedFrom("force")
    /\ ev.rtn.init0 /\ ~ev.rtn.spi0
    /\ ev.rtn.val
    /\ usingSPIMode /\ sdMounted /\ ~mmcMounted

\* C2: when handleCapture has ended after acquiring a frame, it has returned the
\* frame exactly once (and it returned none when it acquired none).
C2_FrameReturnedOnce ==
    CaptureDone => fbReturns = (IF fbState = "none" THEN 0 ELSE 1)

\* C3: the file write of a capture reads the frame only while the capture
\* still owns it (after esp_camera_fb_get, before esp_camera_fb_return).
C3_WriteWhileOwned == fbWrite # "stale"

\* C4: a probe of checkSDCardStatus is never followed by another probe within
\* SD_CHECK_INTERVAL: any two probes are more than the interval apart.
C4_OneProbePerWindow ==
    (ev.step = "probe" /\ ev.gap >= 0) => ev.gap > SD_CHECK_INTERVAL

\* checkSDCardStatus() was called inside the window that follows a failed probe
\* whose recovery succeeded, and returned without probing; that probe was
\* itself the second one.
C4_Witness ==
    /\ ev.step = "checkThrottled"
    /\ lastProbe > SD_CHECK_INTERVAL + SD_CHECK_INTERVAL
    /\ lastCheckRecovery = lastProbe
    /\ now - lastProbe <= SD_CHECK_INTERVAL

\* C5 as stated: two recoveries (a forceReinitializeSDCard(), or the mount
\* loops of an initializeSDCard() not called by it) never begin within one
\* 5-second window.
C5_RecoveryOncePerWindow ==
    (ev.step = "recovery" /\ ev.gap >= 0) => ev.gap >= SD_CHECK_INTERVAL

\* C5 as amended: the recoveries begun by checkSDCardStatus() after a failed
\* probe are more than SD_CHECK_INTERVAL apart; recoveries requested by a
\* handler or by initializeSDCard() on an uninitialized transport are not
\* rate-limited.
C5_CheckRecoveryOncePerWindow ==
    (ev.step = "recovery" /\ ev.cgap >= 0) => ev.cgap > SD_CHECK_INTERVAL

\* checkSDCardStatus() begins its second recovery, more than the interval after
\* its first, and a handler began a recovery between the two.
C5_Witness ==
    /\ ev.step = "recovery"
    /\ ev.cgap > SD_CHECK_INTERVAL
    /\ ev.gap >= 0 /\ ev.gap < ev.cgap

ActiveModeMounted ==
    IF usingSPIMode THEN sdMounted /\ ~mmcMounted ELSE mmcMounted /\ ~sdMounted

\* C6: initializeSDCard() returns false only after 3 failed SD_MMC attempts and
\* 3 failed SD attempts of that call; when it returns true the transport is
\* initialized and usingSPIMode names the one mounted mode, and when the call
\* itself mounted, that mode is the one whose attempt succeeded and
\* lastSDCheckTime is the time of the success.
C6_InitializeResult ==
    ReturnedFrom("initialize") =>
        /\ ~ev.rtn.val =>
             /\ ev.rtn.m = 3 /\ ev.rtn.s = 3
             /\ ~sdCardInitialized
        /\ ev.rtn.val =>
             /\ sdCardInitialized /\ ActiveModeMounted
             /\ lastSDCheckTime <= now
             /\ ev.att.mode = "mmc" =>
                  ~usingSPIMode /\ mmcMounted /\ lastSDCheckTime = now
             /\ ev.att.mode = "spi" =>
                  usingSPIMode /\ sdMounted /\ lastSDCheckTime = now

\* initializeSDCard() has returned true from the third SD attempt, after three
\* failed SD_MMC attempts.
C6_Witness ==
    /\ ReturnedFrom("initialize") /\ ev.rtn.val
    /\ ev.att.mode = "spi" /\ ev.rtn.m = 3 /\ ev.rtn.s = 3

\* C7 as stated: one outermost call of initializeSDCard() makes at most 3 SD_MMC
\* and 3 SD mount attempts, those of the calls nested in it included.
C7_ThreeAttemptsPerCall == acct.mmc <= 3 /\ acct.spi <= 3

\* C7 as amended: each execution of initializeSDCard()'s retry loops makes at
\* most 3 attempts per mode; one outermost call runs the loops at most twice
\* (in the recovery of its health check, then its own), so at most 6 per mode.
C7_ThreeAttemptsPerPass ==
    /\ \A i \in InitializeFrames : stack[i].m <= 3 /\ stack[i].s <= 3
    /\ ReturnedFrom("initialize") => ev.rtn.m <= 3 /\ ev.rtn.s <= 3
    /\ acct.mmc <= 6 /\ acct.spi <= 6

\* An initializeSDCard() call on an initialized transport has made 6 SD_MMC
\* and 6 SD attempts and returned false.
C7_Witness ==
    /\ ReturnedFrom("initialize") /\ ev.rtn.init0 /\ ~ev.rtn.val
    /\ acct.mmc = 6 /\ acct.spi = 6

\* C8: in one pass of initializeSDCard() no SD (SPI) attempt is made before 3
\* SD_MMC attempts have failed; a pass in which an SD_MMC attempt succeeds makes
\* no SD attempt and ends with SD_MMC as the active, mounted mode.
C8_BusModeFirst ==
    /\ \A i \in InitializeFrames :
         (stack[i].pc = "spi" \/ stack[i].s > 0) => stack[i].m = 3
    /\ ev.att.mode = "spi" => (ev.rtn.proc = "initialize" => ev.rtn.m = 3)
    /\ (ev.att.mode = "mmc" /\ ReturnedFrom("initialize")) =>
         /\ ev.rtn.val /\ ev.rtn.s = 0 /\ ev.rtn.m <= 3
         /\ sdCardInitialized /\ ~usingSPIMode /\ mmcMounted /\ ~sdMounted

\* The third SD_MMC attempt of a pass has succeeded.
C8_Witness ==
    /\ ev.att.mode = "mmc" /\ ReturnedFrom("initialize")
    /\ ev.rtn.val /\ ev.rtn.m = 3

BecomesInitialized == ~sdCardInitialized /\ sdCardInitialized'
VerifiedAttempt == ev.att.mode # "none" /\ ev.att.begin /\ ev.att.card /\ ev.att.root
FailedVerify == ev.att.mode # "none" /\ ev.att.begin /\ ~(ev.att.card /\ ev.att.root)

\* C9: sdCardInitialized becomes true only in an attempt whose begin succeeded,
\* whose cardType was not CARD_NONE and whose root opened as a directory; after
\* an attempt whose begin succeeded and whose verification failed, and whenever
\* an attempt or the fallback is about to start, neither mode is mounted.
C9_MountVerified ==
    /\ [][BecomesInitialized => VerifiedAttempt']_vars
    /\ [](FailedVerify => (~mmcMounted /\ ~sdMounted /\ ~sdCardInitialized))
    /\ []((At("initialize", "mmc") \/ At("initialize", "spi")) =>
            (~mmcMounted /\ ~sdMounted /\ ~sdCardInitialized))

\* The last SD_MMC attempt mounted but found no card, was unmounted, and the
\* SD (SPI) fallback is about to start.
C9_Witness ==
    /\ FailedVerify /\ ev.att.mode = "mmc" /\ ~ev.att.card
    /\ At("initialize", "spi")
    /\ ~mmcMounted

NoOpReturn == ev.step = "initNoOp" /\ ReturnedFrom("initialize") /\ ev.rtn.init0
TransportUntouched ==
    /\ sdCardInitialized /\ usingSPIMode = ev.rtn.spi0
    /\ acct.mmc = 0 /\ acct.spi = 0 /\ acct.ends = 0

\* C10 as stated: when initializeSDCard() is entered initialized and
\* checkSDCardStatus() returns true, it returns true with sdCardInitialized and
\* usingSPIMode as at entry and no begin or end performed.
C10_NoOpWhenCheckPasses == NoOpReturn => (ev.rtn.val /\ TransportUntouched)

\* C10 as amended: the same, when checkSDCardStatus() returns true without its
\* probe having failed (inside the interval, or the probe succeeded); a check
\* that passes through its own recovery has unmounted and remounted, possibly
\* in the other mode.
C10_NoOpWhenProbeNotFailed ==
    (NoOpReturn /\ acct.probe # "fail") => (ev.rtn.val /\ TransportUntouched)

\* initializeSDCard() returned true on an initialized transport whose probe
\* ran and succeeded.
C10_Witness == NoOpReturn /\ acct.probe = "ok" /\ TransportUntouched

ProbeStep == At("check", "start") /\ ev'.step = "probe"
MountState == <<sdCardInitialized, usingSPIMode, mmcMounted, sdMounted>>

\* C11: a probe of checkSDCardStatus() that fails is followed by one call of
\* forceReinitializeSDCard(), and when that call has returned the check returns
\* its value at once; a probe that succeeds makes the check return true with
\* nothing unmounted or mounted.
C11_ProbeOutcome ==
    /\ [][(ProbeStep /\ acct'.probe = "fail") =>
            /\ Len(stack') = Len(stack) + 1
            /\ stack'[Len(stack')].proc = "force"
            /\ stack'[Len(stack)].proc = "check"
            /\ stack'[Len(stack)].pc = "afterForce"]_vars
    /\ [][At("check", "afterForce") =>
            /\ ev.step = "forceReturn" /\ ev.rtn.proc = "force"
            /\ stack' = Pop
            /\ ev'.rtn.proc = "check"
            /\ ev'.rtn.val = ev.rtn.val /\ ret' = ev.rtn.val]_vars
    /\ [][(ProbeStep /\ acct'.probe = "ok") =>
            /\ stack' = Pop /\ ret' = TRUE
            /\ ev'.rtn.proc = "check" /\ ev'.rtn.val = TRUE
            /\ UNCHANGED MountState]_vars

\* checkSDCardStatus() has returned false, the value of the recovery its failed
\* probe started.
C11_Witness ==
    /\ ev.step = "checkReturn" /\ ~ev.rtn.val
    /\ acct.probe = "fail" /\ ~sdCardInitialized
    /\ lastCheckRecovery = lastProbe

\* C12: checkSDCardStatus() entered with the transport uninitialized returns
\* false in its next step, in which no time passes, nothing is probed, torn
\* down or mounted, and sdCardInitialized, usingSPIMode and lastSDCheckTime
\* keep their values.
C12_UninitializedCheck ==
    [][(At("check", "start") /\ ~sdCardInitialized) =>
         /\ stack' = Pop
         /\ ret' = FALSE
         /\ ev'.step = "checkUninitialized"
         /\ ev'.rtn.proc = "check" /\ ev'.rtn.val = FALSE
         /\ UNCHANGED <<transport, now, acct, lastProbe, recoveryGhost>>]_vars

\* checkSDCardStatus() has returned false at once, long after the last stamp,
\* on a transport that a failed recovery left uninitialized.
C12_Witness ==
    /\ ev.step = "checkUninitialized" /\ ~ev.rtn.val
    /\ ~sdCardInitialized /\ lastRecovery >= 0
    /\ CheckDue(now, lastSDCheckTime)

\* forceReinitializeSDCard() was entered with SD_MMC as the active mode
ForceFromBusMode(f) == f.proc = "force" /\ f.init0 /\ ~f.spi0

\* C13: forceReinitializeSDCard() entered with SD_MMC active has, when its
\* initializeSDCard() starts, ended SD_MMC and cleared sdCardInitialized; when
\* that initializeSDCard() has failed 3 SD_MMC attempts and an SD (SPI) attempt
\* verified, the transport is initialized in SPI mode with SD_MMC unmounted,
\* and the call returns true in its next step without touching the transport.
C13_ForceFallsBack ==
    /\ []((At("initialize", "start") /\ Caller = "force"
            /\ ForceFromBusMode(stack[Len(stack) - 1])) =>
             (~mmcMounted /\ ~sdCardInitialized /\ ev.step = "recovery"))
    /\ []((At("force", "afterInit") /\ ForceFromBusMode(Top)
            /\ ev.att.mode = "spi" /\ VerifiedAttempt) =>
             /\ ev.rtn.m = 3
             /\ ret /\ sdCardInitialized /\ usingSPIMode
             /\ sdMounted /\ ~mmcMounted)
    /\ [][At("force", "afterInit") =>
            /\ stack' = Pop /\ ret' = ret
            /\ ev'.rtn.proc = "force" /\ ev'.rtn.val = ret
            /\ UNCHANGED transport]_vars

\* The initializeSDCard() of a forceReinitializeSDCard() entered with SD_MMC
\* active has failed 3 SD_MMC attempts and mounted SD (SPI) at its first.
C13_Witness ==
    /\ At("force", "afterInit") /\ ForceFromBusMode(Top)
    /\ ev.att.mode = "spi" /\ VerifiedAttempt
    /\ ev.rtn.m = 3 /\ ev.rtn.s = 1
    /\ ret /\ usingSPIMode

RECURSIVE Sum(_)
Sum(s) == IF s = <<>> THEN 0 ELSE s[1] + Sum(Tail(s))
PartSent == At("handleCameraStream", "release") /\ fb > 0

\* C14: when the streaming loop has sent the part of a frame of length L > 0,
\* every write was of at most 1024 bytes, every write but the last of exactly
\* 1024, and the sizes written sum to L, the Content-Length of the part header.
C14_ChunksSumToLength ==
    PartSent =>
        /\ part.declared = fb
        /\ \A i \in 1..Len(part.chunks) : part.chunks[i] <= CHUNK
        /\ \A i \in 1..(Len(part.chunks) - 1) : part.chunks[i] = CHUNK
        /\ Sum(part.chunks) = part.declared

Streaming == stack # <<>> /\ Top.proc = "handleCameraStream"

\* C15: handleCameraStream is left only in a step in which client.connected()
\* reports false; a step in which esp_camera_fb_get() gives no frame leaves
\* the handler running and prints and writes nothing to the client.
C15_StreamEndsOnDisconnect ==
    /\ [][(Streaming /\ stack' = <<>>) =>
            (~clientConnected' /\ ev'.step = "streamExit")]_vars
    /\ [][(At("handleCameraStream", "acquire") /\ fb' = -1) =>
            /\ stack' # <<>> /\ ev'.step = "streamNoFrame"
            /\ UNCHANGED <<written, part, clientConnected>>]_vars

\* After a pass that sent a part, a pass whose acquisition failed has ended
\* and the loop goes on with the client connected.
C15_Witness ==
    /\ At("handleCameraStream", "loop") /\ ev.step = "streamNoFrame"
    /\ clientConnected /\ iterations = 2 /\ written > 1

ListDone ==
    /\ stack = <<>> /\ handler = "handleFileList" /\ response = 200
    /\ listing.closed
Entries(json) == {i \in 1..Len(json) : json[i].kind = "entry"}
StartsWithDot(name) == name # <<>> /\ name[1] = "."

\* C16: in the body of a successful list response every file object is whole
\* and carries a bare name that does not begin with '.', and the count
\* reported is the number of file objects in the body.
C16_NoHiddenEntries ==
    ListDone =>
        /\ \A i \in 1..Len(listing.json) : listing.json[i].kind # "damaged"
        /\ \A i \in Entries(listing.json) :
             ~StartsWithDot(listing.json[i].name)
        /\ listing.fileCount = Cardinality(Entries(listing.json))

\* A directory that enumerated a hidden file, a visible one and another hidden
\* one has been listed.
C16_Witness ==
    /\ ListDone /\ listing.seen = 3 /\ listing.fileCount = 1
    /\ listing.cut = 1 /\ Len(listing.json) = 1

\* C17: when the initializeSDCard() of a list request was entered with the
\* transport uninitialized and an SD_MMC attempt verified, the transport is
\* initialized with SD_MMC mounted, no SD (SPI) attempt was made and the
\* health check that follows is inside its interval; and a list whose
\* directory opened and held no file answers 200 with an intact, empty files
\* array and count 0.
C17_ListAfterBusModeInit ==
    /\ (/\ At("handleFileList", "afterInit")
        /\ ev.att.mode = "mmc" /\ VerifiedAttempt
        /\ ~ev.rtn.init0 /\ ev.rtn.caller = "handleFileList") =>
           /\ ret /\ sdCardInitialized /\ ~usingSPIMode
           /\ mmcMounted /\ ~sdMounted
           /\ ev.rtn.s = 0 /\ acct.spi = 0
           /\ now - lastSDCheckTime <= SD_CHECK_INTERVAL
    /\ (/\ stack = <<>> /\ handler = "handleFileList"
        /\ ev.step = "listFinish" /\ listing.seen = 0) =>
           /\ response = 200
           /\ listing.closed /\ listing.cut = 0
           /\ listing.json = <<>> /\ listing.fileCount = 0

\* The first request is a list: the first SD_MMC attempt mounted, and the list
\* of the empty directory has been sent with SD_MMC active.
C17_Witness ==
    /\ ListDone /\ ev.step = "listFinish" /\ listing.seen = 0
    /\ listing.json = <<>> /\ listing.fileCount = 0
    /\ acct.mmc = 1 /\ acct.spi = 0 /\ acct.ends = 0
    /\ lastRecovery = 0 /\ now = DELAY_STABILIZE
    /\ sdCardInitialized /\ ~usingSPIMode /\ mmcMounted

UploadAnswered ==
    /\ stack = <<>> /\ handler = "handleFileUploadResponse" /\ response # 0

\* C18: the request of an upload whose uploadError is set when its events have
\* ended is not answered with success.
C18_NoSilentSuccess == (UploadAnswered /\ uploadError) => response # 200

\* C19: no chunk is written by an upload that started while the handle of the
\* upload before it was still open: such a start is refused, so what it
\* delivers does not reach the file that handle is open on.
C19_NoWriteThroughStaleHandle ==
    ~(ev.step = "uploadWrite" /\ upload.full /\ ~upload.fresh)

\* the last upload ran Start, chunks, End on its own handle without an error
UploadedWhole ==
    /\ upload.status = "END" /\ ~uploadError
    /\ upload.fresh /\ upload.full
DownloadDone ==
    /\ stack = <<>> /\ handler = "handleFileDownload" /\ response = 200

\* C20: a download of the path of the last upload, when that upload ran from
\* its start to its end without an error, streams exactly the bytes the
\* upload delivered, in order.
C20_RoundTrip ==
    (DownloadDone /\ UploadedWhole /\ downloaded.path = uploadPath) =>
        downloaded.data = upload.data

\* Two chunks of one byte each, 0 then 1, were uploaded and downloaded.
C20_Witness ==
    /\ DownloadDone /\ UploadedWhole /\ downloaded.path = uploadPath
    /\ upload.data = <<0, 1>> /\ upload.totalSize = 2
    /\ downloaded.data = <<0, 1>>

BadFolderName(name) ==
    name = <<>> \/ \E i \in 1..Len(name) : name[i] \in {"/", "\\"}

\* C21: a create_folder request whose name is empty or holds '/' or '\' is
\* answered 400 "Invalid folder name" in the step that reads the name: the
\* handler ends there, having called neither checkSDCardStatus(),
\* initializeSDCard() or forceReinitializeSDCard() nor mkdir, and the
\* transport, the clock and the stored files are as they were.
C21_InvalidNameRejectedFirst ==
    [][(/\ At("handleCreateFolder", "start")
        /\ args'.present /\ BadFolderName(args'.name)) =>
         /\ stack' = <<>> /\ response' = 400
         /\ ev'.step = "createFolderRejected"
         /\ UNCHANGED <<transport, now, ret, acct, lastProbe, recoveryGhost,
                        files>>]_vars

\* A name that ends in a backslash has been rejected on an initialized
\* transport whose health check was due.
C21_Witness ==
    /\ stack = <<>> /\ handler = "handleCreateFolder" /\ response = 400
    /\ ev.step = "createFolderRejected"
    /\ args.present /\ args.name = <<"a", "\\">>
    /\ sdCardInitialized /\ CheckDue(now, lastSDCheckTime)

DeleteEnds == At("handleFileDelete", "afterInit")

\* C22 as stated: a delete request that found the transport initialized and
\* names a path at which there is nothing is answered 500 "Failed to delete
\* file", and the stored files are as they were.
C22_MissingFileFails ==
    [][(DeleteEnds /\ ev.rtn.init0 /\ ~Exists(args'.file)) =>
         /\ ev'.step = "deleteFinish" /\ response' = 500
         /\ files' = files]_vars

\* C22 as amended: the same for a request whose initializeSDCard() returned
\* true; when the transport was initialized but its health check and the
\* recovery failed, the answer is 500 "SD Card not available"; in neither case
\* is the answer a success or a stored file changed.
C22_MissingFileFailsWhenAvailable ==
    /\ [][(DeleteEnds /\ ret /\ ~Exists(args'.file)) =>
            /\ ev'.step = "deleteFinish" /\ response' = 500
            /\ files' = files]_vars
    /\ [][(DeleteEnds /\ ~ret /\ ~Exists(args'.file)) =>
            /\ ev'.step = "deleteUnavailable" /\ response' = 500
            /\ files' = files]_vars

\* On a card that holds a file at /a, the delete of /b, where there is
\* nothing, has been answered 500 "Failed to delete file" after a health
\* check that probed the card.
C22_Witness ==
    /\ stack = <<>> /\ handler = "handleFileDelete"
    /\ ev.step = "deleteFinish" /\ response = 500
    /\ args.file = <<"/", "b">> /\ ~Exists(<<"/", "b">>)
    /\ files[<<"/", "a">>].kind = "file"
    /\ sdCardInitialized /\ lastProbe = now

CaptureSucceeded == CaptureDone /\ response = 200

\* C23: a capture answers 200 only if saveImageToSD() opened the destination
\* file and file.write() reported as many bytes as it was asked to write;
\* when the file did not open or the write was short, the capture has
\* answered 500.
C23_SuccessOnlyIfWrittenWhole ==
    /\ CaptureSucceeded =>
         (capture.opened /\ capture.written = capture.length)
    /\ (/\ CaptureDone /\ ev.step = "captureFinish"
        /\ (~capture.opened \/ capture.written # capture.length)) =>
           response = 500

\* A capture whose file opened and whose write was one byte short has
\* answered 500.
C23_Witness ==
    /\ CaptureDone /\ ev.step = "captureFinish" /\ response = 500
    /\ capture.opened /\ capture.length = 1 /\ capture.written = 0

DigitSet == {"0", "1", "2", "3", "4", "5", "6", "7", "8", "9"}
DigitValue(c) == CHOOSE d \in 0..9 : DigitChars[d + 1] = c
RECURSIVE DecimalValue(_)
DecimalValue(s) ==
    IF s = <<>> THEN 0
    ELSE 10 * DecimalValue(SubSeq(s, 1, Len(s) - 1)) + DigitValue(s[Len(s)])
\* name is CAPTURE_<the decimal digits of millis>.jpg
NamedAfter(name, millis) ==
    /\ Len(name) >= 4
    /\ name[1] = "CAPTURE" /\ name[2] = "_" /\ name[Len(name)] = ".jpg"
    /\ LET digits == SubSeq(name, 3, Len(name) - 1)
       IN  /\ \A k \in 1..Len(digits) : digits[k] \in DigitSet
           /\ Len(digits) > 1 => digits[1] # "0"
           /\ DecimalValue(digits) = millis

\* C24: the filename of a capture that answered 200 is CAPTURE_, the decimal
\* digits of millis() as read when the name was made, and .jpg, and its path
\* is '/' followed by the filename; a capture that follows a successful one
\* and reads the same millis() makes the same filename, and it can succeed.
C24_FilenamePattern ==
    /\ CaptureSucceeded =>
         /\ NamedAfter(capture.filename, capture.millis)
         /\ capture.millis <= now
         /\ capture.path = <<"/">> \o capture.filename
    /\ (CaptureSucceeded /\ NamedAfter(capture.prev, capture.millis)) =>
         capture.filename = capture.prev

\* Two captures in a row, both at millis() = 100, have answered 200 with the
\* filename CAPTURE_100.jpg.
C24_Witness ==
    /\ CaptureSucceeded /\ capture.millis = 100
    /\ capture.filename = <<"CAPTURE", "_", "1", "0", "0", ".jpg">>
    /\ capture.prev = capture.filename
    /\ capture.path = <<"/", "CAPTURE", "_", "1", "0", "0", ".jpg">>

InsideInterval == now - lastSDCheckTime <= SD_CHECK_INTERVAL

\* C25: checkSDCardStatus() entered on an initialized transport no more than
\* SD_CHECK_INTERVAL after lastSDCheckTime returns true in its next step, in
\* which nothing is probed, ended or mounted, no time passes, and
\* sdCardInitialized, usingSPIMode and lastSDCheckTime keep their values,
\* whatever the card would have answered.
C25_ThrottledCheckIsNoOp ==
    [][(At("check", "start") /\ sdCardInitialized /\ InsideInterval) =>
         /\ stack' = Pop
         /\ ret' = TRUE
         /\ ev'.step = "checkThrottled"
         /\ ev'.rtn.proc = "check" /\ ev'.rtn.val = TRUE
         /\ UNCHANGED <<transport, now, acct, lastProbe, recoveryGhost,
                        files>>]_vars

\* checkSDCardStatus() has returned true without a probe exactly
\* SD_CHECK_INTERVAL after the stamp of the mount, the card not having been
\* probed since.
C25_Witness ==
    /\ ev.step = "checkThrottled" /\ ev.rtn.val
    /\ sdCardInitialized
    /\ now - lastSDCheckTime = SD_CHECK_INTERVAL
    /\ lastProbe = -1

\* the next step of the handler calls a file primitive of SD / SD_MMC
AboutToOpen ==
    \/ At("handleFileList", "open") /\ Top.rc > 0
    \/ At("handleFileUpload", "open") /\ Top.rc > 0 /\ uploadFile = NoHandle
AboutToUseFiles ==
    \/ AboutToOpen
    \/ At("save", "afterInit") /\ ret
    \/ At("handleCreateFolder", "afterCheck") /\ ret
    \/ At("handleCreateFolder", "afterForce") /\ ret
    \/ At("handleFileDelete", "afterInit") /\ ret
    \/ At("handleFileDownload", "afterInit") /\ ret

\* C26: whenever a handler is about to call open, mkdir or remove, the
\* transport is initialized and the mode usingSPIMode names is the one that is
\* mounted; this holds for every pass of the open loops of the list and of
\* the upload start, the passes after a forceReinitializeSDCard() included.
C26_PrimitivesOnlyWhenInitialized ==
    AboutToUseFiles => (sdCardInitialized /\ ActiveModeMounted)

StreamDone == stack = <<>> /\ handler = "handleCameraStream"

\* C27: the stream holds at most one frame; it holds none when it calls
\* esp_camera_fb_get() and none when the handler has ended, having returned
\* every frame it was given exactly once; a pass in which
\* esp_camera_fb_get() gives no frame returns none, and a frame of length 0 is
\* returned without a part having been sent for it.
C27_FramePairing ==
    /\ [](Streaming =>
            /\ streamLog.get - streamLog.ret = (IF fb = -1 THEN 0 ELSE 1)
            /\ At("handleCameraStream", "acquire") => fb = -1)
    /\ [](StreamDone => (fb = -1 /\ streamLog.ret = streamLog.get))
    /\ [][(At("handleCameraStream", "acquire") /\ fb' = -1) =>
            UNCHANGED streamLog]_vars
    /\ [][(At("handleCameraStream", "acquire") /\ fb' = 0) =>
            (At("handleCameraStream", "release")' /\ UNCHANGED <<part, written>>)]_vars
    /\ [][At("handleCameraStream", "release") =>
            (streamLog'.ret = streamLog.ret + 1 /\ fb' = -1)]_vars

\* The client left in the pass of the second frame: both frames were
\* returned and the handler has ended.
C27_Witness ==
    /\ StreamDone /\ ev.step = "streamExit" /\ ~clientConnected
    /\ streamLog.get = 2 /\ streamLog.ret = 2 /\ fb = -1
    /\ written > 1

\* C28: whenever the client is gone while handleCameraStream runs, the
\* handler eventually ends, and it holds no frame then.
C28_StreamEndsAfterDisconnect ==
    /\ (Streaming /\ ~clientConnected) ~> StreamDone
    /\ [](StreamDone => fb = -1)

\* The client left while the chunks of the first frame were being written;
\* the frame was returned and the handler has ended.
C28_Witness ==
    /\ StreamDone /\ ev.step = "streamExit" /\ ~clientConnected
    /\ streamLog.drop = "chunk"
    /\ streamLog.get = 1 /\ streamLog.ret = 1 /\ fb = -1

\* the frame of handleFileList is in its open loop
InOpenLoop == stack # <<>> /\ stack[1].proc = "handleFileList" /\ stack[1].pc = "open"
ListFailed == stack = <<>> /\ handler = "handleFileList" /\ response = 404

\* C29: a list request calls open(path) at most 3 times, and between two of
\* its opens forceReinitializeSDCard() is called exactly once; it answers 404
\* "Directory not found" only after 3 opens that gave no handle, and 404
\* "Path is not a directory", with the handle closed, when an open gave the
\* handle of a plain file; a list answered 404 has built no files array.
C29_ListOpenRetries ==
    handler = "handleFileList" =>
        /\ listing.opens <= 3
        /\ listing.forces =
             (IF InOpenLoop \/ listing.opens = 0
                THEN listing.opens ELSE listing.opens - 1)
        /\ ListFailed =>
             /\ ev.step \in {"listNotFound", "listNotADirectory"}
             /\ listing.json = <<>> /\ listing.cut = 0 /\ ~listing.closed
             /\ listing.seen = 0 /\ listing.fileCount = 0
        /\ (ListFailed /\ ev.step = "listNotFound") =>
             (listing.opens = 3 /\ listing.forces = 2 /\ listing.root = "none")
        /\ (ListFailed /\ ev.step = "listNotADirectory") =>
             listing.root = "closed"
        /\ (stack = <<>> /\ listing.opens > 0) => listing.root # "open"

\* The third open of a list, after two that gave no handle and a forced
\* reinitialization after each, gave the handle of a plain file.
C29_Witness ==
    /\ ListFailed /\ ev.step = "listNotADirectory"
    /\ listing.opens = 3 /\ listing.forces = 2 /\ listing.root = "closed"

\* the handler of an upload start that found no handle open
FreshStart ==
    handler = "handleFileUpload" /\ upload.status = "START" /\ upload.fresh
\* ... and has just returned
StartReturned ==
    /\ FreshStart /\ stack = <<>>
    /\ ev.step \in {"uploadStarted", "uploadUnavailable"}
\* the frame of the start is in its open loop with the handle not yet open
InUploadLoop ==
    /\ stack # <<>> /\ stack[1].proc = "handleFileUpload"
    /\ stack[1].pc \in {"open", "retryCheck"} /\ uploadFile = NoHandle

\* C30: an upload start that found no handle open calls open(uploadPath,
\* FILE_WRITE) at most 3 times; each open that gives no handle while retries
\* remain is followed by one checkSDCardStatus(), and by one
\* forceReinitializeSDCard() exactly when that check returned false; when the
\* start has returned, uploadError is set if and only if 3 opens gave no
\* handle or the reconnection failed, and in that last case no open was made.
C30_UploadStartRetries ==
    /\ [](FreshStart =>
            /\ upload.opens <= 3 /\ upload.forces <= upload.checks
            /\ upload.checks =
                 (IF InUploadLoop \/ upload.opens = 0 \/ uploadError
                    THEN (IF upload.opens = 3 THEN 2 ELSE upload.opens)
                    ELSE upload.opens - 1))
    /\ [](StartReturned =>
            /\ ev.step = "uploadUnavailable" =>
                 (uploadError /\ upload.opens = 0 /\ uploadFile = NoHandle)
            /\ ev.step = "uploadStarted" =>
                 /\ uploadError <=> (upload.opens = 3 /\ uploadFile = NoHandle)
                 /\ ~uploadError => uploadFile = uploadPath)
    /\ [][(FreshStart /\ stack # <<>> /\ stack' = <<>>) =>
            ev'.step \in {"uploadStarted", "uploadUnavailable"}]_vars
    /\ [][At("handleFileUpload", "retryCheck") =>
            /\ ev.rtn.proc = "check"
            /\ IF ev.rtn.val
                 THEN stack' = Goto("open") /\ upload'.forces = upload.forces
                 ELSE /\ stack'[Len(stack')].proc = "force"
                      /\ upload'.forces = upload.forces + 1]_vars

\* The start opened the destination at its third open, after two opens that
\* gave no handle; the check of the first retry failed and was followed by
\* a forced reinitialization, the check of the second passed.
C30_Witness ==
    /\ StartReturned /\ ev.step = "uploadStarted" /\ ~uploadError
    /\ upload.opens = 3 /\ upload.checks = 2 /\ upload.forces = 1
    /\ uploadFile = uploadPath

\* C31: an upload chunk delivered while no handle is open or uploadError is
\* set writes no byte to any file and leaves uploadFile, uploadPath and
\* uploadError as they were.
C31_ChunkDiscarded ==
    [][(ev'.step = "uploadWrite" /\ (uploadFile = NoHandle \/ uploadError)) =>
          /\ UNCHANGED <<files, uploadFile, uploadPath, uploadError>>
          /\ upload'.discarded = upload.discarded + 1]_vars

\* A chunk was discarded while the handle was open and uploadError was set:
\* the file holds nothing of it.
C31_Witness ==
    /\ ev.step = "uploadWrite" /\ upload.discarded = 1
    /\ uploadFile # NoHandle /\ uploadError
    /\ Len(upload.data) = 2 /\ files[uploadFile].data = <<>>

\* the bytes the file behind the handle gains in the step
Taken == Len(files'[uploadFile].data) - Len(files[uploadFile].data)

\* C32: a chunk write that takes fewer bytes than the chunk holds sets
\* uploadError (one that takes them all does not); the bytes the file held
\* stay in front of those the write took; and while uploadError is set, every
\* step other than an upload start leaves it set and leaves every file as it
\* is.
C32_ShortWriteStopsWriting ==
    /\ [][(ev'.step = "uploadWrite" /\ uploadFile # NoHandle /\ ~uploadError) =>
            /\ Taken \in 0..(upload'.totalSize - upload.totalSize)
            /\ uploadError' <=> (Taken # upload'.totalSize - upload.totalSize)
            /\ SubSeq(files'[uploadFile].data, 1, Len(files[uploadFile].data))
                  = files[uploadFile].data]_vars
    /\ [][(uploadError /\ ev'.step # "uploadStart") =>
            (uploadError' /\ files' = files)]_vars

\* A chunk came after a short write: it was discarded, and the byte written
\* before the failure is still in the file.
C32_Witness ==
    /\ ev.step = "uploadWrite" /\ upload.discarded = 1
    /\ uploadFile # NoHandle /\ uploadError
    /\ Len(upload.data) = 3 /\ Len(files[uploadFile].data) = 1

\* C33: an upload end that finds the handle open leaves uploadError clear
\* if and only if it was clear before and open(uploadPath) gave a file whose
\* size is upload.totalSize; the file is opened for that only when
\* uploadError was clear; an end that finds no handle open sets uploadError.
C33_EndVerifiesSize ==
    /\ [][(ev'.step = "uploadEnd" /\ uploadFile # NoHandle) =>
            /\ upload'.verify.tried <=> ~uploadError
            /\ ~uploadError' <=>
                  /\ ~uploadError
                  /\ upload'.verify.found
                  /\ files[uploadPath].kind # "none"
                  /\ Len(files[uploadPath].data) = upload.totalSize]_vars
    /\ [][(ev'.step = "uploadEnd" /\ uploadFile = NoHandle) =>
            (uploadError' /\ ~upload'.verify.tried)]_vars

\* An upload of 2 bytes has ended with uploadError clear: the file at
\* uploadPath was opened again and holds 2 bytes.
C33_Witness ==
    /\ ev.step = "uploadEnd" /\ upload.status = "END" /\ ~uploadError
    /\ upload.totalSize = 2 /\ upload.verify.tried /\ upload.verify.size = 2
    /\ Len(files[uploadPath].data) = 2

UploadOver == upload.status \in {"END", "ABORTED"}

\* C34: once an upload has ended or was aborted, whatever came before, neither
\* uploadFile nor the verifyFile of the end is open, until the next start;
\* after an abort uploadError is set; the step of the end or the abort is what
\* closes the handle.
C34_NoHandleAfterEnd ==
    /\ [](UploadOver =>
            (uploadFile = NoHandle /\ upload.verify.handle = NoHandle))
    /\ [](upload.status = "ABORTED" => uploadError)
    /\ [][ev'.step \in {"uploadEnd", "uploadAborted"} =>
            (uploadFile' = NoHandle /\ upload'.verify.handle = NoHandle)]_vars

\* The second upload started while the handle of the first was still open,
\* wrote through it, and was aborted: the handle is closed.
C34_Witness ==
    /\ ev.step = "uploadAborted" /\ upload.status = "ABORTED"
    /\ upload.session = 2 /\ ~upload.fresh /\ upload.data # <<>>
    /\ uploadFile = NoHandle /\ uploadError

Separators == {"/", "\\"}
\* the "path" parameter with one "/" after it, unless it ends with one
Joined(dir) ==
    IF dir # <<>> /\ dir[Len(dir)] = "/" THEN dir ELSE dir \o <<"/">>
\* tail follows the last separator of name, or is all of name when it has none
AfterLastSeparator(tail, name) ==
    /\ \A k \in 1..Len(tail) : tail[k] \notin Separators
    /\ \E j \in 0..Len(name) :
         /\ tail = SubSeq(name, j + 1, Len(name))
         /\ j > 0 => name[j] \in Separators

\* C35: uploadPath is the "path" parameter ("/" when there is none), one "/"
\* unless the parameter ends with "/", and the part of upload.filename that
\* follows its last "/" or "\"; that part holds neither character.
C35_DestinationPath ==
    ev.step = "uploadPath" =>
        LET dir == Joined(IF args.present THEN args.name ELSE <<"/">>)
        IN  /\ Len(uploadPath) >= Len(dir)
            /\ SubSeq(uploadPath, 1, Len(dir)) = dir
            /\ AfterLastSeparator(SubSeq(uploadPath, Len(dir) + 1, Len(uploadPath)),
                                  args.file)

\* The filename \/a was uploaded to the directory /a: the destination is /a/a.
C35_Witness ==
    /\ ev.step = "uploadPath"
    /\ args.present /\ args.name = <<"/", "a">>
    /\ args.file = <<"\\", "/", "a">>
    /\ uploadPath = <<"/", "a", "/", "a">>

TransportProcs == {"initialize", "check", "force"}

\* C36: when initializeSDCard(), checkSDCardStatus() or
\* forceReinitializeSDCard() has returned, the value it returned is the value
\* of sdCardInitialized.
C36_ResultIsFlag ==
    ev.rtn.proc \in TransportProcs =>
        (ev.rtn.val = sdCardInitialized /\ ret = ev.rtn.val)

\* The checkSDCardStatus() that initializeSDCard() called on an initialized
\* transport has returned false, from a recovery that failed: the flag is
\* false.
C36_Witness ==
    /\ ev.step = "checkReturn" /\ ev.rtn.caller = "initialize"
    /\ ev.rtn.init0 /\ ~ev.rtn.val /\ ~sdCardInitialized

\* C37: whenever sdCardInitialized is true, the mode usingSPIMode names is
\* mounted and the other is not; whenever initializeSDCard(),
\* checkSDCardStatus() or forceReinitializeSDCard() has returned with
\* sdCardInitialized false, neither mode is mounted.
C37_MountMatchesFlag ==
    /\ sdCardInitialized => ActiveModeMounted
    /\ (ev.rtn.proc \in TransportProcs /\ ~sdCardInitialized) =>
         (~mmcMounted /\ ~sdMounted)

\* forceReinitializeSDCard() entered with SD (SPI) active has returned false:
\* SD was ended, every attempt to mount failed, and neither mode is mounted.
C37_Witness ==
    /\ ReturnedFrom("force") /\ ev.rtn.init0 /\ ev.rtn.spi0
    /\ ~ev.rtn.val /\ ~sdCardInitialized
    /\ ~mmcMounted /\ ~sdMounted

\* the frame at depth d of the stack is a call of the transport
TransportCallAt(d) == Len(stack) >= d /\ stack[d].proc \in TransportProcs

\* C38: every call of initializeSDCard(), checkSDCardStatus() and
\* forceReinitializeSDCard() returns, whatever the library calls report; at
\* most one probe of checkSDCardStatus() is made between the moment a handler
\* calls into the transport and the return of that call, and
\* checkSDCardStatus() never runs inside another checkSDCardStatus(); each
\* initializeSDCard() makes at most 3 SD_MMC and at most 3 SD attempts, with
\* its loop counter between 0 and 3.
C38_TransportTerminates ==
    /\ \A d \in 2..5 : TransportCallAt(d) ~> (Len(stack) < d)
    /\ [](Len(stack) <= 5)
    /\ []((\E d \in 2..5 : TransportCallAt(d)) => acct.probes <= 1)
    /\ [](Cardinality({i \in 1..Len(stack) : stack[i].proc = "check"}) <= 1)
    /\ [](\A i \in InitializeFrames :
             /\ stack[i].m <= 3 /\ stack[i].s <= 3
             /\ stack[i].rc \in 0..3)
    /\ [][ProbeStep => (acct.probes = 0 \/ OutermostCall)]_vars

\* initializeSDCard(), called on an initialized transport, has returned false
\* after one failed probe, 6 SD_MMC and 6 SD attempts: the recovery of its
\* health check failed, then its own loops.
C38_Witness ==
    /\ ReturnedFrom("initialize") /\ ev.rtn.caller = "handleFileDelete"
    /\ ev.rtn.init0 /\ ~ev.rtn.val
    /\ acct.probes = 1 /\ acct.probe = "fail"
    /\ acct.mmc = 6 /\ acct.spi = 6 /\ ev.rtn.m = 3 /\ ev.rtn.s = 3

\* items is a list of file objects with one comma between any two, and none
\* before the first or after the last
CommaSeparated(items) ==
    /\ items # <<>> => Len(items) % 2 = 1
    /\ \A k \in 1..Len(items) :
         items[k].kind = (IF k % 2 = 1 THEN "entry" ELSE "comma")

\* C39: while a list is being built, and when it is sent, no character of the
\* prefix of json (up to and including the opening bracket of the files
\* array) has been removed; the items of the body that is sent are file
\* objects separated by exactly one comma, with no comma before the first or
\* after the last.
C39_ListBodyWellFormed ==
    handler = "handleFileList" =>
        /\ listing.cut = 0
        /\ listing.closed => CommaSeparated(listing.json)

====
